---- MODULE Spec2Model ----
(***************************************************************************)
(* Verification model of the switch-migration tool                         *)
(* (apps/migration-tool/app_PROTECTED).                                     *)
(*                                                                         *)
(* Strings are sequences of one-character strings, so regular-expression   *)
(* matching, int() and f-string formatting are modelled character by       *)
(* character.  Python's None, where a string is expected, is the one-      *)
(* element sequence NoneName (its element is not a single character, so it *)
(* differs from every real string).                                        *)
(***************************************************************************)
EXTENDS Integers, Sequences, FiniteSets, TLC

(***************************************************************************)
(* Bounds of the model.                                                    *)
(***************************************************************************)
MaxBody == 5
MaxUnits == 2
MaxIfaces == 2
MaxLines == 3
MaxMappings == 2
MaxTrunkList == 2
MaxSimple == 2

(***************************************************************************)
(* Characters and words.                                                   *)
(***************************************************************************)
DigitChars == <<"0", "1", "2", "3", "4", "5", "6", "7", "8", "9">>
Digits == {DigitChars[i] : i \in 1..10}
IsDigit(c) == c \in Digits
DigitVal(c) == (CHOOSE i \in 1..10 : DigitChars[i] = c) - 1

NoneName == <<"<None>">>

Gigabit == <<"G", "i", "g", "a", "b", "i", "t">>
Fast == <<"F", "a", "s", "t">>
Ethernet == <<"E", "t", "h", "e", "r", "n", "e", "t">>
Eth == <<"E", "t", "h">>
GE == <<"G", "E">>
GigabitEthernet == Gigabit \o Ethernet
FastEthernet == Fast \o Ethernet

StartsWith(s, w) == Len(s) >= Len(w) /\ SubSeq(s, 1, Len(w)) = w

(* str.lower(), on the letters the model's names are made of *)
LowerChar(c) ==
    CASE c = "G" -> "g" [] c = "E" -> "e" [] c = "F" -> "f" [] c = "X" -> "x"
      [] c = "T" -> "t" [] OTHER -> c
Lower(s) == [i \in 1..Len(s) |-> LowerChar(s[i])]

(* int(): the value of a non-empty run of decimal digits *)
RECURSIVE IntOf(_)
IntOf(ds) ==
    IF Len(ds) = 0 THEN 0
    ELSE 10 * IntOf(SubSeq(ds, 1, Len(ds) - 1)) + DigitVal(ds[Len(ds)])

(* f"{n}" for a natural number n *)
RECURSIVE Dec(_)
Dec(n) ==
    IF n < 10 THEN <<DigitChars[n + 1]>>
    ELSE Dec(n \div 10) \o <<DigitChars[(n % 10) + 1]>>

(***************************************************************************)
(* Regular-expression pieces.                                              *)
(***************************************************************************)
(* length of the greedy match of \d* at position i of s *)
RECURSIVE DigitRun(_, _)
DigitRun(s, i) ==
    IF i <= Len(s) /\ IsDigit(s[i]) THEN 1 + DigitRun(s, i + 1) ELSE 0

(* the groups of (\d+)/(\d+)/.../(\d+) with n groups matched at position i *)
(* of s, or <<>> when it does not match.  A group is followed by "/" or    *)
(* ends the pattern, so only its greedy match can succeed.                 *)
RECURSIVE MatchSegments(_, _, _)
MatchSegments(s, i, n) ==
    LET k == DigitRun(s, i) IN
    IF k = 0 THEN <<>>
    ELSE IF n = 1 THEN <<SubSeq(s, i, i + k - 1)>>
    ELSE IF i + k <= Len(s) /\ s[i + k] = "/"
         THEN LET rest == MatchSegments(s, i + k + 1, n - 1) IN
              IF rest = <<>> THEN <<>> ELSE <<SubSeq(s, i, i + k - 1)>> \o rest
         ELSE <<>>

(* re.findall(r'\d+', s), scanning from position i *)
RECURSIVE FindAllNumbers(_, _)
FindAllNumbers(s, i) ==
    IF i > Len(s) THEN <<>>
    ELSE LET k == DigitRun(s, i) IN
         IF k = 0 THEN FindAllNumbers(s, i + 1)
         ELSE <<SubSeq(s, i, i + k - 1)>> \o FindAllNumbers(s, i + k)

(***************************************************************************)
(* UniversalInterfaceParser.INTERFACE_PATTERNS.  A specific rule is its    *)
(* prefix word followed by 3 ("full") or 2 ("slot_port") numeric segments. *)
(* The generic rule is ((?:Gigabit|Fast)?Ethernet|Eth|GE)[\d/]+ : its      *)
(* alternatives, in the order the regex engine tries them, are             *)
(* GenericPrefixes.                                                        *)
(***************************************************************************)
INTERFACE_PATTERNS ==
    << [name |-> "Huawei GigabitEthernet", prefix |-> GigabitEthernet, format |-> "full"],
       [name |-> "Huawei GE Short",        prefix |-> GE,              format |-> "full"],
       [name |-> "Huawei Ethernet",        prefix |-> Ethernet,        format |-> "full"],
       [name |-> "HP Eth",                 prefix |-> Eth,             format |-> "full"],
       [name |-> "HP GigabitEthernet",     prefix |-> GigabitEthernet, format |-> "full"],
       [name |-> "Cisco GigabitEthernet",  prefix |-> GigabitEthernet, format |-> "slot_port"],
       [name |-> "Cisco FastEthernet",     prefix |-> FastEthernet,    format |-> "slot_port"],
       [name |-> "Generic Interface",      prefix |-> <<>>,            format |-> "generic"] >>

GenericPrefixes == <<GigabitEthernet, FastEthernet, Ethernet, Eth, GE>>

SegmentCount(format) == IF format = "full" THEN 3 ELSE 2

(* the alternatives of the generic rule that match at the start of s *)
GenericAlternatives(s) ==
    {j \in 1..Len(GenericPrefixes) :
        LET w == GenericPrefixes[j] IN
        /\ StartsWith(s, w)
        /\ Len(s) > Len(w)
        /\ (IsDigit(s[Len(w) + 1]) \/ s[Len(w) + 1] = "/")}

Minimum(S) == CHOOSE x \in S : \A y \in S : x <= y
Maximum(S) == CHOOSE x \in S : \A y \in S : x >= y

(* re.match(pattern_info['pattern'], interface_name) is not None *)
PatternMatches(p, s) ==
    IF p.format = "generic" THEN GenericAlternatives(s) # {}
    ELSE /\ StartsWith(s, p.prefix)
         /\ MatchSegments(s, Len(p.prefix) + 1, SegmentCount(p.format)) # <<>>

(* match.groups(): the prefix, then the numeric groups *)
PatternGroups(p, s) ==
    IF p.format = "generic"
    THEN [prefix |-> GenericPrefixes[Minimum(GenericAlternatives(s))], nums |-> <<>>]
    ELSE [prefix |-> p.prefix,
          nums |-> MatchSegments(s, Len(p.prefix) + 1, SegmentCount(p.format))]

(* the for loop over INTERFACE_PATTERNS returns at the first match *)
SelectRuleLast(matching) == Maximum(matching)
SelectRule(matching) == Minimum(matching)

(* the result for None, stored also when the call raised *)
NotRecognized(s) ==
    [recognized |-> FALSE, raised |-> FALSE, original |-> s,
     vendor_type |-> "", prefix |-> <<>>, format |-> "",
     stack |-> -1, slot |-> -1, port |-> -1]

(* the generic branch: numbers = re.findall(r'\d+', interface_name) *)
GenericStack(numbers) == IF Len(numbers) > 0 THEN IntOf(numbers[1]) ELSE 0
GenericSlot(numbers) == IF Len(numbers) > 1 THEN IntOf(numbers[2]) ELSE 0
GenericPort(numbers) ==
    IF Len(numbers) > 2 THEN IntOf(numbers[3])
    ELSE IF Len(numbers) > 0 THEN IntOf(numbers[Len(numbers)]) ELSE 0

(* the dictionary built in the branch of the matching rule p, from         *)
(* match.groups() and, in the generic branch, from numbers                 *)
ParsedInterface(s, p, groups, numbers) ==
    [recognized |-> TRUE, raised |-> FALSE, original |-> s,
     vendor_type |-> p.name, prefix |-> groups.prefix, format |-> p.format,
     stack |-> IF p.format = "full" THEN IntOf(groups.nums[1])
               ELSE IF p.format = "slot_port" THEN 0
               ELSE GenericStack(numbers),
     slot |-> IF p.format = "full" THEN IntOf(groups.nums[2])
              ELSE IF p.format = "slot_port" THEN IntOf(groups.nums[1])
              ELSE GenericSlot(numbers),
     port |-> IF p.format = "full" THEN IntOf(groups.nums[3])
              ELSE IF p.format = "slot_port" THEN IntOf(groups.nums[2])
              ELSE GenericPort(numbers)]

(* the body of "if match:" for the rule p *)
ParseWithRule(s, p) ==
    ParsedInterface(s, p, PatternGroups(p, s), FindAllNumbers(s, 1))

(* the loop over the rules, given the set of the rules that match s; None  *)
(* after the loop                                                          *)
ParseAmong(s, matching) ==
    IF matching = {} THEN NotRecognized(s)
    ELSE ParseWithRule(s, INTERFACE_PATTERNS[SelectRule(matching)])

(* UniversalInterfaceParser.parse_interface_name; re.match raises          *)
(* TypeError when interface_name is None                                   *)
parse_interface_name(s) ==
    IF s = NoneName THEN [NotRecognized(s) EXCEPT !.raised = TRUE]
    ELSE ParseAmong(s, {i \in 1..Len(INTERFACE_PATTERNS) :
                           PatternMatches(INTERFACE_PATTERNS[i], s)})

(* ConfigParser.extract_interface_number: (stack, slot, port), or          *)
(* (None, None, None), here <<-1, -1, -1>>                                 *)
NumberOf(parsed) ==
    IF parsed.recognized THEN <<parsed.stack, parsed.slot, parsed.port>>
    ELSE <<-1, -1, -1>>
extract_interface_number(s) == NumberOf(parse_interface_name(s))

(* f"GE {unit_number}/{slot}/{port}" *)
NewNameUsingStack(unit_number, parsed) ==
    GE \o <<" ">> \o Dec(parsed.stack) \o <<"/">> \o Dec(parsed.slot)
       \o <<"/">> \o Dec(parsed.port)
NewName(unit_number, parsed) ==
    GE \o <<" ">> \o Dec(unit_number) \o <<"/">> \o Dec(parsed.slot)
       \o <<"/">> \o Dec(parsed.port)

(* UniversalInterfaceParser.translate_to_new_format: None for a falsy      *)
(* parsed_interface                                                        *)
translate_to_new_format(parsed, unit_number) ==
    IF ~parsed.recognized THEN NoneName ELSE NewName(unit_number, parsed)

(* the module-level wrapper translate_interface_name of                    *)
(* universal_interface_parser.py, after its call of parse_interface_name   *)
WrapperTranslated(parsed, unit_number) ==
    IF parsed.raised THEN [raised |-> TRUE, value |-> NoneName]
    ELSE [raised |-> FALSE, value |-> translate_to_new_format(parsed, unit_number)]
wrapper_translate_interface_name(s, unit_number) ==
    WrapperTranslated(parse_interface_name(s), unit_number)

(* InterfaceTranslator.translate_interface_name, after its call of         *)
(* parse_interface_name: the original name when parsed is None             *)
Translated(old_name, parsed, unit_number) ==
    IF parsed.raised THEN [raised |-> TRUE, value |-> NoneName]
    ELSE IF ~parsed.recognized THEN [raised |-> FALSE, value |-> old_name]
    ELSE [raised |-> FALSE, value |-> translate_to_new_format(parsed, unit_number)]
translate_interface_name(old_name, unit_number) ==
    Translated(old_name, parse_interface_name(old_name), unit_number)

(***************************************************************************)
(* Text helpers of parse_interface_config.  A line is the sequence of its  *)
(* characters; whitespace is the space character.                          *)
(***************************************************************************)
Sp == <<" ">>

(* str.strip() *)
NonSpace(s) == {i \in 1..Len(s) : s[i] # " "}
Strip(s) ==
    IF NonSpace(s) = {} THEN <<>>
    ELSE SubSeq(s, Minimum(NonSpace(s)), Maximum(NonSpace(s)))

(* w in s *)
Contains(s, w) ==
    \E i \in 1..(Len(s) - Len(w) + 1) : SubSeq(s, i, i + Len(w) - 1) = w

(* lengths of the runs of spaces and of non-spaces at position i of s *)
RECURSIVE SpaceRun(_, _)
SpaceRun(s, i) ==
    IF i <= Len(s) /\ s[i] = " " THEN 1 + SpaceRun(s, i + 1) ELSE 0
RECURSIVE WordRun(_, _)
WordRun(s, i) ==
    IF i <= Len(s) /\ s[i] # " " THEN 1 + WordRun(s, i + 1) ELSE 0

(* str.split(), scanning from position i *)
RECURSIVE Split(_, _)
Split(s, i) ==
    IF i > Len(s) THEN <<>>
    ELSE IF s[i] = " " THEN Split(s, i + 1)
    ELSE <<SubSeq(s, i, i + WordRun(s, i) - 1)>> \o Split(s, i + WordRun(s, i))

(* str.replace(w, ''), scanning from position i *)
RECURSIVE Remove(_, _, _)
Remove(s, w, i) ==
    IF i > Len(s) THEN <<>>
    ELSE IF i + Len(w) - 1 <= Len(s) /\ SubSeq(s, i, i + Len(w) - 1) = w
         THEN Remove(s, w, i + Len(w))
    ELSE <<s[i]>> \o Remove(s, w, i + 1)

(* the literals of parse_interface_config *)
KwInterface == <<"i", "n", "t", "e", "r", "f", "a", "c", "e", " ">>
KwDescription == <<"d", "e", "s", "c", "r", "i", "p", "t", "i", "o", "n", " ">>
KwPortLinkType == <<"p", "o", "r", "t", " ", "l", "i", "n", "k", "-", "t", "y", "p", "e">>
KwAccess == <<"a", "c", "c", "e", "s", "s">>
KwTrunk == <<"t", "r", "u", "n", "k">>
KwPortDefaultVlan == <<"p", "o", "r", "t", " ", "d", "e", "f", "a", "u", "l", "t", " ", "v", "l", "a", "n">>
KwPortAccessVlan == <<"p", "o", "r", "t", " ", "a", "c", "c", "e", "s", "s", " ", "v", "l", "a", "n">>
KwPortTrunkAllowPassVlan ==
    <<"p", "o", "r", "t", " ", "t", "r", "u", "n", "k", " ", "a", "l", "l", "o", "w", "-", "p", "a", "s", "s", " ", "v", "l", "a", "n">>
KwPortTrunkPermitVlan ==
    <<"p", "o", "r", "t", " ", "t", "r", "u", "n", "k", " ", "p", "e", "r", "m", "i", "t", " ", "v", "l", "a", "n">>
KwVlan == <<"v", "l", "a", "n">>
KwVlanAll == <<"v", "l", "a", "n", " ", "a", "l", "l">>
KwSpeed == <<"s", "p", "e", "e", "d", " ">>
KwDuplex == <<"d", "u", "p", "l", "e", "x", " ">>
KwShutdown == <<"s", "h", "u", "t", "d", "o", "w", "n">>
KwHash == <<"#">>

(* re.search(r'vlan\s+(\d+)', line): the positions where it matches, and   *)
(* group(1) of the leftmost match as a one-element sequence, <<>> when     *)
(* there is no match                                                       *)
VlanMatches(line) ==
    {i \in 1..Len(line) :
        /\ i + 3 <= Len(line)
        /\ SubSeq(line, i, i + 3) = KwVlan
        /\ SpaceRun(line, i + 4) >= 1
        /\ DigitRun(line, i + 4 + SpaceRun(line, i + 4)) >= 1}
VlanGroupAt(line, d) == <<IntOf(SubSeq(line, d, d + DigitRun(line, d) - 1))>>
VlanSearch(line) ==
    IF VlanMatches(line) = {} THEN <<>>
    ELSE VlanGroupAt(line, Minimum(VlanMatches(line)) + 4
                             + SpaceRun(line, Minimum(VlanMatches(line)) + 4))

(* [int(v) for v in re.findall(r'\d+', line)] *)
IntsOf(numbers) == [k \in 1..Len(numbers) |-> IntOf(numbers[k])]

NoneInt == 0 - 1
MinVlan == 2
MaxVlan == 4094
AllVlans == [i \in 1..(MaxVlan - MinVlan + 1) |-> i + MinVlan - 1]

(* the dictionary parse_interface_config starts from; None is NoneName for *)
(* a text, "None" for the link type and NoneInt for the VLAN               *)
EmptyConfig ==
    [name |-> NoneName, description |-> NoneName, port_link_type |-> "None",
     vlan |-> NoneInt, trunk_vlans |-> <<>>, speed |-> NoneName,
     duplex |-> NoneName, shutdown |-> FALSE, raw_config |-> <<>>]

(* the branch of a "port default vlan" / "port access vlan" line, given    *)
(* vlan_match                                                              *)
AccessVlanLineOverriding(config, vlan_match) ==
    IF vlan_match = <<>> THEN config
    ELSE [config EXCEPT !.vlan = vlan_match[1], !.port_link_type = "access"]
AccessVlanLine(config, vlan_match) ==
    IF vlan_match = <<>> THEN config
    ELSE [config EXCEPT
            !.vlan = vlan_match[1],
            !.port_link_type =
                IF config.port_link_type = "None" THEN "access"
                ELSE config.port_link_type]

(* the trunk VLANs read from a trunk-permit line *)
TrunkVlansOfIgnoringAll(line) == IntsOf(FindAllNumbers(line, 1))
TrunkVlansOf(line) ==
    IF Contains(Lower(line), KwVlanAll) THEN AllVlans
    ELSE IntsOf(FindAllNumbers(line, 1))

(* the branch of a "port trunk allow-pass vlan" / "port trunk permit vlan" *)
(* line                                                                    *)
TrunkVlanLine(config, line) ==
    [config EXCEPT
       !.port_link_type =
           IF config.port_link_type = "None" THEN "trunk"
           ELSE config.port_link_type,
       !.trunk_vlans = TrunkVlansOf(line)]

(* the if/elif chain of the loop body, for the stripped line *)
LineFacts(config, line) ==
    IF StartsWith(line, KwInterface)
    THEN [config EXCEPT !.name = Split(line, 1)[2]]
    ELSE IF StartsWith(line, KwDescription)
    THEN [config EXCEPT !.description = Remove(line, KwDescription, 1)]
    ELSE IF Contains(line, KwPortLinkType)
    THEN IF Contains(line, KwAccess)
         THEN [config EXCEPT !.port_link_type = "access"]
         ELSE IF Contains(line, KwTrunk)
         THEN [config EXCEPT !.port_link_type = "trunk"]
         ELSE config
    ELSE IF Contains(line, KwPortDefaultVlan) \/ Contains(line, KwPortAccessVlan)
    THEN AccessVlanLine(config, VlanSearch(line))
    ELSE IF \/ Contains(line, KwPortTrunkAllowPassVlan)
            \/ Contains(line, KwPortTrunkPermitVlan)
    THEN TrunkVlanLine(config, line)
    ELSE IF StartsWith(line, KwSpeed)
    THEN [config EXCEPT !.speed = Split(line, 1)[2]]
    ELSE IF StartsWith(line, KwDuplex)
    THEN [config EXCEPT !.duplex = Split(line, 1)[2]]
    ELSE IF line = KwShutdown THEN [config EXCEPT !.shutdown = TRUE]
    ELSE config

(* if line and not line.startswith('#'): config['raw_config'].append(line) *)
StoreRawWithComments(config, line) ==
    IF line # <<>>
    THEN [config EXCEPT !.raw_config = Append(@, line)]
    ELSE config
StoreRaw(config, line) ==
    IF line # <<>> /\ ~StartsWith(line, KwHash)
    THEN [config EXCEPT !.raw_config = Append(@, line)]
    ELSE config

(* the loop body: line = line.strip(), the chain, the raw line *)
ParseLine(config, raw) ==
    StoreRaw(LineFacts(config, Strip(raw)), Strip(raw))

RECURSIVE ParseLines(_, _, _)
ParseLines(config, lines, i) ==
    IF i > Len(lines) THEN config
    ELSE ParseLines(ParseLine(config, lines[i]), lines, i + 1)

(* ConfigParser.parse_interface_config; output.split('\n') is the sequence *)
(* of the lines of output                                                  *)
parse_interface_config(output) == ParseLines(EmptyConfig, output, 1)

(* InterfaceTranslator.translate_full_config: translated_config is a copy  *)
(* of config with the new name and original_name                           *)
TranslatedConfig(config, new_name) ==
    IF new_name.raised THEN [raised |-> TRUE, config |-> config]
    ELSE [raised |-> FALSE,
          config |-> [name |-> new_name.value, original_name |-> config.name,
                      description |-> config.description,
                      port_link_type |-> config.port_link_type,
                      vlan |-> config.vlan, trunk_vlans |-> config.trunk_vlans,
                      speed |-> config.speed, duplex |-> config.duplex,
                      shutdown |-> config.shutdown,
                      raw_config |-> config.raw_config]]

(* config.get('name', '') is None when the block had no interface line,    *)
(* and the translation raises                                              *)
translate_full_config(config, unit_number) ==
    TranslatedConfig(config, translate_interface_name(config.name, unit_number))

(***************************************************************************)
(* The renderers.  A rendered configuration is the sequence config_lines;  *)
(* a line is the sequence of the pieces of text it is made of, literal     *)
(* text and formatted values; '\n'.join(config_lines) is the sequence.     *)
(***************************************************************************)
(* if x:  for a number that may be None *)
Truthy(n) == n # NoneInt /\ n # 0

(* sorted(): insertion into a sorted list *)
RECURSIVE Insert(_, _)
Insert(x, q) ==
    IF q = <<>> THEN <<x>>
    ELSE IF x <= q[1] THEN <<x>> \o q
    ELSE <<q[1]>> \o Insert(x, Tail(q))
RECURSIVE Sort(_)
Sort(q) == IF q = <<>> THEN <<>> ELSE Insert(q[1], Sort(Tail(q)))

(* for trunk_num in sorted(eth_trunks) *)
UnsortedTrunks(eth_trunks) == eth_trunks
SortedTrunks(eth_trunks) == Sort(eth_trunks)

(* ' '.join(str(v) for v in vlans), from position i *)
RECURSIVE JoinNumbers(_, _)
JoinNumbers(vlans, i) ==
    IF i > Len(vlans) THEN <<>>
    ELSE IF i = Len(vlans) THEN Dec(vlans[i])
    ELSE Dec(vlans[i]) \o Sp \o JoinNumbers(vlans, i + 1)

(* generate_layer3_config: header and sysname *)
Layer3Header(switch_name) ==
    << <<"# Configurazione S6730-H48X6C">>,
       <<"# Switch: ", switch_name>>,
       <<"# Generata automaticamente">>,
       <<"#">>,
       <<>>,
       <<"system-view">>,
       <<>>,
       <<"sysname ", switch_name>>,
       <<>> >>

(* management VLAN and IP, static route, admin user *)
Layer3Management(switch_ip) ==
    IF switch_ip # ""
    THEN << <<"vlan 1000">>,
            <<" description MGM_Switch">>,
            <<"#">>,
            <<"interface Vlanif1000">>,
            <<" ip address ", switch_ip, " 255.255.255.0">>,
            <<"#">> >>
    ELSE <<>>
Layer3Route(gateway) ==
    IF gateway # ""
    THEN << <<"ip route-static 0.0.0.0 0.0.0.0 ", gateway>>, <<>> >>
    ELSE <<>>
Layer3Admin(admin_password) ==
    IF admin_password # ""
    THEN << <<"aaa">>,
            <<"local-user admin password irreversible-cipher ", admin_password>>,
            <<"local-user admin privilege level 3">>,
            <<"local-user admin service-type terminal ssh">>,
            <<"q">>,
            <<>> >>
    ELSE <<>>

(* the block of one Eth-Trunk *)
EthTrunkBlock(trunk_num) ==
    << <<"#">>,
       <<"interface Eth-Trunk">> \o Dec(trunk_num),
       <<" port link-type trunk">>,
       <<" port trunk allow-pass vlan 2 to 4094">>,
       <<" mode lacp">>,
       <<" q">> >>

RECURSIVE EthTrunkBlocks(_, _)
EthTrunkBlocks(trunks, i) ==
    IF i > Len(trunks) THEN <<>>
    ELSE EthTrunkBlock(trunks[i]) \o EthTrunkBlocks(trunks, i + 1)

(* "Eth-Trunks first" *)
Layer3EthTrunks(eth_trunks) ==
    IF eth_trunks # <<>>
    THEN << <<"# Eth-Trunk Configuration">> >>
            \o EthTrunkBlocks(SortedTrunks(eth_trunks), 1) \o << <<>> >>
    ELSE <<>>

(* the description line of a mapping *)
DescriptionWord == Strip(KwDescription)
MappingDescription(m) ==
    IF m.description # NoneName /\ m.description # <<>>
    THEN IF StartsWith(m.description, DescriptionWord)
         THEN << Sp \o m.description >>
         ELSE << Sp \o KwDescription \o m.description >>
    ELSE <<>>

(* the lines of a trunk port and of an access port that is in no Eth-Trunk *)
MappingTrunk(m) ==
    << <<" port link-type trunk">> >>
       \o (IF Truthy(m.pvid)
           THEN << <<" port trunk pvid vlan ">> \o Dec(m.pvid) >> ELSE <<>>)
       \o (IF m.trunk_vlans # <<>>
           THEN << <<" port trunk allow-pass vlan ">>
                      \o JoinNumbers(m.trunk_vlans, 1) >>
           ELSE << <<" port trunk allow-pass vlan 2 to 4094">> >>)
MappingAccess(m) ==
    << <<" port link-type access">> >>
       \o (IF Truthy(m.vlan)
           THEN << <<" port default vlan ">> \o Dec(m.vlan) >> ELSE <<>>)

(* the body of "for m in mappings" *)
MappingBlock(m) ==
    << <<"#">>, <<"interface ", m.new_port>> >>
       \o MappingDescription(m)
       \o (IF Truthy(m.eth_trunk) THEN << <<" eth-trunk ">> \o Dec(m.eth_trunk) >>
           ELSE IF m.link_type = "trunk" THEN MappingTrunk(m)
           ELSE IF m.link_type = "access" THEN MappingAccess(m)
           ELSE <<>>)
       \o << <<" q">> >>

RECURSIVE MappingBlocks(_, _)
MappingBlocks(mappings, i) ==
    IF i > Len(mappings) THEN <<>>
    ELSE MappingBlock(mappings[i]) \o MappingBlocks(mappings, i + 1)

(* config_lines of generate_layer3_config *)
Layer3Lines(mappings, eth_trunks, switch_name, switch_ip, gateway, admin_password) ==
    Layer3Header(switch_name)
       \o Layer3Management(switch_ip)
       \o Layer3Route(gateway)
       \o Layer3Admin(admin_password)
       \o Layer3EthTrunks(eth_trunks)
       \o << <<"# Interface Configuration">> >>
       \o MappingBlocks(mappings, 1)
       \o << <<"#">>, <<"return">>, <<>> >>

(* stats of generate_layer3_config *)
CountPorts(mappings, link_type) ==
    Cardinality({i \in 1..Len(mappings) :
                    ~Truthy(mappings[i].eth_trunk)
                    /\ mappings[i].link_type = link_type})
Layer3Stats(mappings, eth_trunks) ==
    [interfaces |-> Len(mappings),
     trunk_ports |-> CountPorts(mappings, "trunk"),
     access_ports |-> CountPorts(mappings, "access"),
     eth_trunks |-> Len(eth_trunks)]

(* TemplateGenerator.generate_simple_config: the block of one interface *)
SimpleBlock(iface) ==
    << KwInterface \o iface.name >>
       \o (IF iface.description # NoneName /\ iface.description # <<>>
           THEN << Sp \o KwDescription \o iface.description >> ELSE <<>>)
       \o (IF iface.port_link_type # "None"
           THEN << <<" port link-type ", iface.port_link_type>> >> ELSE <<>>)
       \o (IF iface.port_link_type = "access" /\ Truthy(iface.vlan)
           THEN << <<" port default vlan ">> \o Dec(iface.vlan) >> ELSE <<>>)
       \o (IF iface.port_link_type = "trunk" /\ iface.trunk_vlans # <<>>
           THEN << <<" port trunk allow-pass vlan ">>
                      \o JoinNumbers(iface.trunk_vlans, 1) >>
           ELSE <<>>)
       \o (IF iface.speed # NoneName /\ iface.speed # <<>>
           THEN << Sp \o KwSpeed \o iface.speed >> ELSE <<>>)
       \o (IF iface.duplex # NoneName /\ iface.duplex # <<>>
           THEN << Sp \o KwDuplex \o iface.duplex >> ELSE <<>>)
       \o << <<" quit">>, <<>> >>

RECURSIVE SimpleBlocks(_, _)
SimpleBlocks(interfaces, i) ==
    IF i > Len(interfaces) THEN <<>>
    ELSE SimpleBlock(interfaces[i]) \o SimpleBlocks(interfaces, i + 1)

generate_simple_config(interfaces) ==
    << <<"system-view">>, <<>> >>
       \o SimpleBlocks(interfaces, 1)
       \o << <<"quit">>, <<"save">>, <<"y">> >>

(* TemplateGenerator.generate_complete_config renders the template         *)
(* huawei_complete.j2, which is not among the sources.  The complete form  *)
(* emits sysname, the management VLAN and its IP interface, the default    *)
(* route, the admin account and, with LACP enabled, the Eth-Trunk1 block   *)
(* before the interface blocks.                                            *)
generate_complete_config(interfaces, switch_name, switch_ip, switch_gateway, admin_password, lacp_enabled) ==
    << <<"sysname ", switch_name>> >>
       \o Layer3Management(switch_ip)
       \o Layer3Route(switch_gateway)
       \o Layer3Admin(admin_password)
       \o (IF lacp_enabled THEN EthTrunkBlock(1) ELSE <<>>)
       \o SimpleBlocks(interfaces, 1)

(***************************************************************************)
(* parse_layer3_excel.  A sheet is the width of its rows (openpyxl yields  *)
(* every row of a sheet with the same number of cells) and the rows from   *)
(* the third on; a row is its eight cells, row[k + 1] being the cell of    *)
(* column k, of which only the first width exist.  A cell is its text,     *)
(* NoneName when it is empty.  trunk_vlans None is <<>>: line 457 leaves   *)
(* it None when no integer is found, so the import returns no empty list.  *)
(***************************************************************************)
KwEthTrunk == <<"e", "t", "h", "-", "t", "r", "u", "n", "k">>
KwPvid == <<"p", "v", "i", "d">>
KwAllowPass == <<"a", "l", "l", "o", "w", "-", "p", "a", "s", "s">>
KwAllRange == <<"2", " ", "t", "o", " ", "4", "0", "9", "4">>
KwNan == <<"n", "a", "n">>
InterfaceWord == Strip(KwInterface)

(* str(cell).strip() if cell else None;  "if text" on the result *)
CellText(cell) == IF cell = NoneName \/ cell = <<>> THEN NoneName ELSE Strip(cell)
Present(text) == text # NoneName /\ text # <<>>

(* if not new_port or new_port == 'nan' or not new_port.startswith(...) *)
RowSkipped(new_port) ==
    \/ ~Present(new_port)
    \/ new_port = KwNan
    \/ ~StartsWith(new_port, InterfaceWord)

(* re.search(r'eth-trunk\s*(\d+)', eth_trunk, re.IGNORECASE): where it     *)
(* matches; int(match.group(1)) of the leftmost match                      *)
EthTrunkMatchesCaseSensitive(label) ==
    {i \in 1..Len(label) :
        /\ i + 8 <= Len(label)
        /\ SubSeq(label, i, i + 8) = KwEthTrunk
        /\ DigitRun(label, i + 9 + SpaceRun(label, i + 9)) >= 1}
EthTrunkMatches(label) ==
    {i \in 1..Len(label) :
        /\ i + 8 <= Len(label)
        /\ Lower(SubSeq(label, i, i + 8)) = KwEthTrunk
        /\ DigitRun(label, i + 9 + SpaceRun(label, i + 9)) >= 1}
EthTrunkNumber(label) ==
    IF Present(label) /\ label # KwNan /\ EthTrunkMatches(label) # {}
    THEN VlanGroupAt(label, Minimum(EthTrunkMatches(label)) + 9
                         + SpaceRun(label, Minimum(EthTrunkMatches(label)) + 9))[1]
    ELSE NoneInt

(* port_link_type *)
ImportLinkType(link_type) ==
    IF Present(link_type) /\ Contains(Lower(link_type), KwTrunk) THEN "trunk"
    ELSE IF Present(link_type) /\ Contains(Lower(link_type), KwAccess)
    THEN "access"
    ELSE "None"

(* vlan: re.search(r'vlan\s+(\d+)', config1) *)
ImportVlan(config1) ==
    IF Present(config1) /\ VlanSearch(config1) # <<>>
    THEN VlanSearch(config1)[1] ELSE NoneInt

(* pvid: re.search(r'pvid\s+vlan\s+(\d+)', config1) *)
PvidMatches(line) ==
    {i \in 1..Len(line) :
        /\ i + 3 <= Len(line)
        /\ SubSeq(line, i, i + 3) = KwPvid
        /\ SpaceRun(line, i + 4) >= 1
        /\ (i + 4 + SpaceRun(line, i + 4)) \in VlanMatches(line)}
PvidAt(line, j) == VlanGroupAt(line, j + 4 + SpaceRun(line, j + 4))[1]
ImportPvid(config1) ==
    IF Present(config1) /\ Contains(Lower(config1), KwPvid)
       /\ PvidMatches(config1) # {}
    THEN PvidAt(config1, Minimum(PvidMatches(config1)) + 4
                            + SpaceRun(config1, Minimum(PvidMatches(config1)) + 4))
    ELSE NoneInt

(* trunk_vlans: only a cell with 'allow-pass' and without '2 to 4094' is   *)
(* searched for integers                                                   *)
ImportTrunkVlans(config2) ==
    IF Present(config2) /\ Contains(Lower(config2), KwAllowPass)
       /\ ~Contains(config2, KwAllRange)
    THEN IntsOf(FindAllNumbers(config2, 1))
    ELSE <<>>

(* config2 = str(row[7]).strip() if len(row) > 7 and row[7] else None *)
Config2Cell(row, width) == IF width > 7 THEN CellText(row[8]) ELSE NoneName

(* the mapping of a row that is not skipped *)
ImportMapping(row, width) ==
    [old_port |-> CellText(row[2]),
     new_port |-> Strip(Remove(CellText(row[3]), KwInterface, 1)),
     description |-> IF CellText(row[4]) = KwNan THEN NoneName
                     ELSE CellText(row[4]),
     eth_trunk |-> EthTrunkNumber(CellText(row[5])),
     link_type |-> ImportLinkType(CellText(row[6])),
     vlan |-> ImportVlan(CellText(row[7])),
     pvid |-> ImportPvid(CellText(row[7])),
     trunk_vlans |-> ImportTrunkVlans(Config2Cell(row, width))]

(* mappings after the loop over the rows *)
ImportKeeps(row) == ~RowSkipped(CellText(row[3]))
ImportMappings(rows, width) ==
    [k \in 1..Len(SelectSeq(rows, ImportKeeps)) |->
        ImportMapping(SelectSeq(rows, ImportKeeps)[k], width)]

(* sorted(list(eth_trunks)) *)
RECURSIVE SortedSet(_)
SortedSet(S) ==
    IF S = {} THEN <<>> ELSE <<Minimum(S)>> \o SortedSet(S \ {Minimum(S)})
ImportEthTrunks(mappings) ==
    SortedSet({mappings[k].eth_trunk : k \in 1..Len(mappings)} \ {NoneInt})

(* the answer of parse_layer3_excel: row[6] of a row with fewer than seven *)
(* cells raises IndexError, which the handler answers with status 500      *)
ImportFailure ==
    [status |-> 500, mappings |-> <<>>, eth_trunks |-> <<>>, total_mappings |-> 0]
ImportSuccess(mappings) ==
    [status |-> 200, mappings |-> mappings,
     eth_trunks |-> ImportEthTrunks(mappings),
     total_mappings |-> Len(mappings)]
parse_layer3_excel(sheet) ==
    IF sheet.rows # <<>> /\ sheet.width < 7 THEN ImportFailure
    ELSE ImportSuccess(ImportMappings(sheet.rows, sheet.width))

(***************************************************************************)
(* SSHManager.  A device answers a ConnectHandler call on a transport with *)
(* "ok", "auth" (NetmikoAuthenticationException), "timeout"                *)
(* (NetmikoTimeoutException) or "refused" (any other exception), and a     *)
(* command and the closing of the connection with "ok" or "fail".  str(e)  *)
(* of a failure is its name.                                               *)
(***************************************************************************)
TransportOutcomes == {"ok", "auth", "timeout", "refused"}
CommandOutcomes == {"ok", "fail"}
Devices ==
    [ssh : TransportOutcomes, telnet : TransportOutcomes,
     command : CommandOutcomes, close : CommandOutcomes]
NoDevice == [ssh |-> "ok", telnet |-> "ok", command |-> "ok", close |-> "ok"]

(* __init__ *)
NewManager ==
    [connection |-> FALSE, connection_method |-> "None", tried |-> <<>>,
     raised |-> <<>>]
NoOutcome == [raised |-> <<>>, output |-> FALSE]

AuthenticationFailed == <<"Authentication failed: Invalid username or password">>
ConnectionFailed(ssh_error, telnet_error) ==
    <<"Connection failed - SSH: ", ssh_error, ", Telnet: ", telnet_error>>

(* except NetmikoAuthenticationException: raise;  any other exception of   *)
(* the SSH attempt falls through to Telnet                                 *)
SshFallsBackOnAuth(ssh) == ssh # "ok"
SshFallsBack(ssh) == ssh \notin {"ok", "auth"}

(* the Telnet attempt of connect *)
ConnectTelnet(man, dev) ==
    IF dev.telnet = "ok"
    THEN [man EXCEPT !.connection = TRUE, !.connection_method = "Telnet",
                     !.tried = <<"SSH", "Telnet">>]
    ELSE IF dev.telnet = "auth"
    THEN [man EXCEPT !.tried = <<"SSH", "Telnet">>,
                     !.raised = AuthenticationFailed]
    ELSE [man EXCEPT !.tried = <<"SSH", "Telnet">>,
                     !.raised = ConnectionFailed(dev.ssh, dev.telnet)]

(* SSHManager.connect; a failing "screen-length disable" is only logged *)
SSHManager_connect(man, dev) ==
    IF dev.ssh = "ok"
    THEN [man EXCEPT !.connection = TRUE, !.connection_method = "SSH",
                     !.tried = <<"SSH">>]
    ELSE IF SshFallsBack(dev.ssh) THEN ConnectTelnet(man, dev)
    ELSE [man EXCEPT !.tried = <<"SSH">>, !.raised = AuthenticationFailed]

(* SSHManager.execute_command *)
SSHManager_execute_command(man, dev) ==
    IF ~man.connection
    THEN [raised |-> <<"Not connected to switch">>, output |-> FALSE]
    ELSE IF dev.command = "fail"
    THEN [raised |-> <<"Command execution failed: ", "fail">>, output |-> FALSE]
    ELSE [raised |-> <<>>, output |-> TRUE]

(* SSHManager.disconnect: connection is reset after the handle closed *)
SSHManager_disconnect(man, dev) ==
    IF man.connection /\ dev.close = "ok" THEN [man EXCEPT !.connection = FALSE]
    ELSE man

(***************************************************************************)
(* config-backup: discover_and_backup and save_backup.  A credential set   *)
(* is a number, a site a number with 0 for a request that names no site;   *)
(* a configuration is its text; a session with a device ends "ok" (the     *)
(* configuration was read), "auth" (connect raised the authentication      *)
(* error) or "error" (any other exception).                                *)
(***************************************************************************)
MaxWorkers == 4
MaxDevices == 2
MaxPoolDevices == 5
MaxCredentials == 2
MaxClock == 1
SiteId == 100
CoreCredential == 0
BackupConfigs == {<<"a">>, <<"b", "b">>}
SessionOutcomes == {"ok", "auth", "error"}

(* hash_config: SHA-256, which tells the model's configurations apart *)
hash_config(config) == <<"sha256">> \o config

(* get_all_credentials_for_site: the distinct credential sets of the       *)
(* site's rows, the first one the site's own                               *)
CredentialLists == {[k \in 1..n |-> k] : n \in 1..MaxCredentials}

(* an entry of devices_to_backup *)
DeviceToBackup(ip, is_core, all_credentials) ==
    [ip |-> ip, type |-> IF is_core THEN "core" ELSE "l2",
     credentials |-> IF is_core THEN CoreCredential ELSE 1,
     fallback_credentials |-> IF is_core THEN <<>> ELSE all_credentials]
DeviceLists(all_credentials) ==
    {[d \in 1..MaxDevices |-> DeviceToBackup(d, core[d], all_credentials)] :
        core \in [1..MaxDevices -> BOOLEAN]}
BackupRequests ==
    {[sito |-> 0, all_credentials |-> <<>>, devices |-> devs] :
        devs \in DeviceLists(<<>>)}
    \cup UNION {{[sito |-> SiteId, all_credentials |-> creds, devices |-> devs] :
                    devs \in DeviceLists(creds)} : creds \in CredentialLists}
NoBackupRequest == [sito |-> 0, all_credentials |-> <<>>, devices |-> <<>>]

(* credentials_to_try: the primary, then the fallbacks not yet in the list *)
RECURSIVE AppendDistinct(_, _)
AppendDistinct(credentials, fallback_list) ==
    IF fallback_list = <<>> THEN credentials
    ELSE AppendDistinct(
             IF \E i \in 1..Len(credentials) : credentials[i] = Head(fallback_list)
             THEN credentials ELSE Append(credentials, Head(fallback_list)),
             Tail(fallback_list))
credentials_to_try(device) ==
    AppendDistinct(<<device.credentials>>, device.fallback_credentials)

(* str(e) of a failed session *)
SessionError(outcome) ==
    IF outcome = "auth" THEN AuthenticationFailed
    ELSE ConnectionFailed("timeout", "timeout")

(* the except branch of backup_device: continue or break *)
TriesNextOnAnyError(error, idx, count) == idx < count - 1
TriesNext(error, idx, count) == error = AuthenticationFailed /\ idx < count - 1

(* sito=sito or device_ip *)
SiteOf(sito, device) == IF sito = 0 THEN device.ip ELSE sito

(* database.check_config_exists(hash, sito=sito): the ids of the site's    *)
(* records with the hash; the newest is returned, 0 standing for None      *)
MatchingRecords(db, hash, sito) ==
    {i \in 1..Len(db) : db[i].hash_config = hash /\ db[i].sito = sito}
check_config_exists(db, hash, sito) ==
    IF MatchingRecords(db, hash, sito) = {} THEN 0
    ELSE Maximum(MatchingRecords(db, hash, sito))

(* timestamp = datetime.now().strftime(...); filepath *)
BackupFile(sito, clock) == <<sito, clock>>

(* open(filepath, 'w').write(config) *)
WriteFile(files, filename, config) ==
    [f \in (DOMAIN files) \cup {filename} |->
        IF f = filename THEN config ELSE files[f]]

(* database.insert_backup: the id is the next row id *)
BackupRecord(id, sito, ip, filename, config) ==
    [id |-> id, sito |-> sito, ip |-> ip, filename |-> filename,
     hash_config |-> hash_config(config), config_size |-> Len(config)]

(* database.get_previous_backup and calculate_diff: has_changes of a new   *)
(* backup                                                                  *)
PreviousRecords(db, sito, exclude_id) ==
    {i \in 1..Len(db) : db[i].sito = sito /\ db[i].id # exclude_id}
HasChanges(db, files, sito, id, config) ==
    /\ PreviousRecords(db, sito, id) # {}
    /\ files[db[Maximum(PreviousRecords(db, sito, id))].filename] # config

(* the locals of a pool task and what backup_device returns *)
NoResult ==
    [success |-> FALSE, backup_id |-> 0, has_changes |-> FALSE,
     is_duplicate |-> FALSE, used_fallback |-> FALSE, error |-> <<>>]
NewTask ==
    [pc |-> "queued", idx |-> 0, attempts |-> <<>>, config |-> <<>>,
     filename |-> <<>>, result |-> NoResult]
Failure(error) == [NoResult EXCEPT !.error = error]
Success(id, has_changes, is_duplicate, idx) ==
    [NoResult EXCEPT !.success = TRUE, !.backup_id = id,
                     !.has_changes = has_changes, !.is_duplicate = is_duplicate,
                     !.used_fallback = idx > 0]

(* save_backup as one step: the table, the files and the result after it  *)
SaveNew(db, files, filename, sito, ip, config) ==
    [db |-> Append(db, BackupRecord(Len(db) + 1, sito, ip, filename, config)),
     files |-> WriteFile(files, filename, config),
     result |-> Success(Len(db) + 1,
                        HasChanges(db, WriteFile(files, filename, config), sito,
                                   Len(db) + 1, config),
                        FALSE, 0)]
save_backup(db, files, clock, sito, ip, config) ==
    IF check_config_exists(db, hash_config(config), sito) # 0
    THEN [db |-> db, files |-> files,
          result |-> Success(check_config_exists(db, hash_config(config), sito),
                             FALSE, TRUE, 0)]
    ELSE SaveNew(db, files, BackupFile(sito, clock), sito, ip, config)

(* the 'backup' part of the JSON response *)
NoBackupResponse ==
    [total |-> 0 - 1, successful |-> 0, failed_count |-> 0, results |-> <<>>,
     failed |-> <<>>]
BackupResponse(devices, results, failed) ==
    [total |-> Len(devices), successful |-> Len(results),
     failed_count |-> Len(failed), results |-> results, failed |-> failed]

(* ThreadPoolExecutor(max_workers=4): a queued task starts when a worker   *)
(* is idle                                                                 *)
PoolUnbounded(busy) == TRUE
PoolHasIdleWorker(busy) == busy < MaxWorkers

(***************************************************************************)
(* Inputs of the model.                                                    *)
(***************************************************************************)
Slash == <<"/">>
Name3(prefix, stack, slot, port) ==
    prefix \o Dec(stack) \o Slash \o Dec(slot) \o Slash \o Dec(port)
Name2(prefix, slot, port) == prefix \o Dec(slot) \o Slash \o Dec(port)

Vlanif == <<"V", "l", "a", "n", "i", "f">>

(* prefixes and body characters of the names given to the name grammar *)
NamePrefixes ==
    {GigabitEthernet, GE, Ethernet, Eth, FastEthernet, GE \o <<" ">>, Vlanif}
BodyChars == {"0", "1", "5", "/", "x"}
Bodies == UNION {[1..n -> BodyChars] : n \in 0..MaxBody}
GrammarNames == {p \o b : p \in NamePrefixes, b \in Bodies} \cup {NoneName}

(* the names parse_interface_brief hands to process_stack: each starts     *)
(* with a match of a specific rule                                         *)
StackNames ==
    {Name3(GigabitEthernet, 0, 0, 8), Name3(Ethernet, 0, 0, 8),
     Name3(Ethernet, 0, 0, 30)}
UnitNumbers == {1, 2}
PortCounts == {8, 24, 48}

(* what the device answers to "display current-configuration interface X": *)
(* an access block, a trunk block, a block without interface line, or      *)
(* "fail" when the command raises                                          *)
CfgOutcomes == {"access", "trunk", "noname", "fail"}
ConfigOutput(name, cfg) ==
    IF cfg = "access"
    THEN << KwHash,
            KwInterface \o name,
            Sp \o KwPortLinkType \o Sp \o KwAccess,
            Sp \o KwPortDefaultVlan \o Sp \o Dec(10) >>
    ELSE IF cfg = "trunk"
    THEN << KwInterface \o name,
            Sp \o KwPortLinkType \o Sp \o KwTrunk,
            Sp \o KwPortTrunkAllowPassVlan \o Sp \o Dec(20) \o Sp \o Dec(30) >>
    ELSE << <<"E", "r", "r", "o", "r", ":", " ", "W", "r", "o", "n", "g", " ", "p", "a", "r", "a", "m", "e", "t", "e", "r", " ", "f", "o", "u", "n", "d">> >>

(* the lines of the blocks given to parse_interface_config, as the device  *)
(* prints them                                                             *)
Uplink == <<"U", "p", "l", "i", "n", "k">>
LineInterface == KwInterface \o Name3(GigabitEthernet, 0, 0, 5)
LineDescription == Sp \o KwDescription \o Uplink
LineLinkAccess == Sp \o KwPortLinkType \o Sp \o KwAccess
LineLinkTrunk == Sp \o KwPortLinkType \o Sp \o KwTrunk
LineDefaultVlan == Sp \o KwPortDefaultVlan \o Sp \o Dec(10)
LineAccessVlan == Sp \o KwPortAccessVlan \o Sp \o Dec(20)
LineAllowPass ==
    Sp \o KwPortTrunkAllowPassVlan \o Sp \o Dec(10) \o Sp \o Dec(20)
       \o Sp \o Dec(30)
LineAllowPassTwo ==
    Sp \o KwPortTrunkAllowPassVlan \o Sp \o Dec(10) \o Sp \o Dec(20)
LinePermitAll == Sp \o KwPortTrunkPermitVlan \o Sp \o <<"a", "l", "l">>
LineSpeed == Sp \o KwSpeed \o Dec(1000)
LineDuplex == Sp \o KwDuplex \o <<"f", "u", "l", "l">>
LineShutdown == Sp \o KwShutdown
LineComment == KwHash
LineBlank == <<>>
LineOther == Sp \o <<"s", "t", "p", " ", "e", "d", "g", "e", "d", "-", "p", "o", "r", "t", " ", "e", "n", "a", "b", "l", "e">>

ConfigLines ==
    {LineInterface, LineDescription, LineLinkAccess, LineLinkTrunk,
     LineDefaultVlan, LineAccessVlan, LineAllowPass, LinePermitAll, LineSpeed,
     LineDuplex, LineShutdown, LineComment, LineBlank, LineOther}

(* the block of the end-to-end scenario: "interface GigabitEthernet0/0/5\n *)
(* description Uplink\n port link-type trunk\n port trunk allow-pass vlan  *)
(* 10 20\n", split at the newlines                                         *)
ScenarioBlock ==
    <<LineInterface, LineDescription, LineLinkTrunk, LineAllowPassTwo, LineBlank>>

ConfigBlocks ==
    UNION {[1..n -> ConfigLines] : n \in 0..MaxLines} \cup {ScenarioBlock}

(* the requests of the render handlers.  A mapping is a row of            *)
(* parse_layer3_excel's answer; Absent is a key the request body lacks.    *)
Absent == "<absent>"
NewPort == "XGigabitEthernet1/0/1"
Mapping(description, eth_trunk, link_type, vlan, pvid, trunk_vlans) ==
    [old_port |-> NoneName, new_port |-> NewPort, description |-> description,
     eth_trunk |-> eth_trunk, link_type |-> link_type, vlan |-> vlan,
     pvid |-> pvid, trunk_vlans |-> trunk_vlans]
TrunkIds == {1, 2}
Mappings ==
    {Mapping(NoneName, t, "trunk", NoneInt, NoneInt, <<>>) : t \in TrunkIds}
    \cup {Mapping(NoneName, NoneInt, "trunk", NoneInt, 10, <<10, 20>>),
          Mapping(NoneName, NoneInt, "trunk", NoneInt, NoneInt, <<>>),
          Mapping(NoneName, NoneInt, "access", 10, NoneInt, <<>>),
          Mapping(Uplink, NoneInt, "access", NoneInt, NoneInt, <<>>),
          Mapping(DescriptionWord \o Sp \o Uplink, NoneInt, "None", NoneInt,
                  NoneInt, <<>>)}
MappingLists == UNION {[1..n -> Mappings] : n \in 0..MaxMappings}
TrunkLists == UNION {[1..n -> TrunkIds] : n \in 0..MaxTrunkList}
Given(value) == {Absent, value}

(* the sheets given to parse_layer3_excel.  XPort is the port of the       *)
(* import scenario; a row takes its new-port cell, its eth-trunk label     *)
(* and its link-type, config-1 and config-2 cells from the sets below.     *)
MaxRows == 2
XPort == Name3(<<"X">> \o GigabitEthernet, 1, 0, 1)
PortCellInterface == KwInterface \o XPort
NewPortCells == {PortCellInterface, XPort, NoneName}
LabelScenario == <<"E", "t", "h", "-", "T", "r", "u", "n", "k", " ", "5">>
LabelZero == <<"e", "t", "h", "-", "t", "r", "u", "n", "k", "0">>
LabelOther == <<"l", "a", "g", " ", "5">>
LabelCells == {LabelScenario, LabelZero, LabelOther, NoneName}
CellPvid == <<"p", "o", "r", "t", " ", "t", "r", "u", "n", "k", " ", "p", "v", "i", "d", " ", "v", "l", "a", "n", " ", "2", "0">>
CellAllowAll == KwPortTrunkAllowPassVlan \o Sp \o KwAllRange
CellAllowTwo == KwPortTrunkAllowPassVlan \o <<" ", "1", "0", " ", "2", "0">>
CellPermitTwo == KwPortTrunkPermitVlan \o <<" ", "1", "0", " ", "2", "0">>
CellDefaultVlan == KwPortDefaultVlan \o <<" ", "1", "0">>
ConfigCells ==
    {<<KwPortLinkType \o Sp \o KwTrunk, CellPvid, CellAllowAll>>,
     <<KwTrunk, NoneName, CellAllowTwo>>,
     <<KwTrunk, NoneName, CellPermitTwo>>,
     <<KwAccess, CellDefaultVlan, NoneName>>,
     <<NoneName, NoneName, NoneName>>}
SheetRows ==
    {<<NoneName, NoneName, port, NoneName, label, c[1], c[2], c[3]>> :
        port \in NewPortCells, label \in LabelCells, c \in ConfigCells}
SheetWidths == {6, 7, 8}
NoSheet == [width |-> 8, rows |-> <<>>]
Sheets ==
    {[width |-> w, rows |-> r] :
        w \in SheetWidths, r \in UNION {[1..n -> SheetRows] : n \in 0..MaxRows}}

NoRequest ==
    [handler |-> "None", mappings |-> <<>>, eth_trunks |-> <<>>,
     interfaces |-> <<>>, name |-> Absent, ip |-> Absent, gateway |-> Absent,
     admin_password |-> Absent, lacp_enabled |-> FALSE, stack_file |-> FALSE]
NoResponse ==
    [status |-> 0, error |-> <<>>, config |-> <<>>, stats |-> Layer3Stats(<<>>, <<>>)]
NoPrev == [req |-> NoRequest, out |-> NoResponse]

(* the bodies of POST /api/generate-layer3-config *)
Layer3Requests ==
    {[NoRequest EXCEPT !.handler = "layer3", !.mappings = m, !.eth_trunks = t,
                       !.name = n, !.ip = i, !.gateway = g,
                       !.admin_password = a] :
        m \in MappingLists, t \in TrunkLists, n \in Given("SW1"),
        i \in Given("10.0.0.2"), g \in Given("10.0.0.1"), a \in Given("Secret1")}

(* the bodies of POST /api/generate-stack-config, and whether the stack    *)
(* file of process_stack exists; the file holds one access interface       *)
StackRequests ==
    {[NoRequest EXCEPT !.handler = "stack", !.name = n, !.ip = i, !.gateway = g,
                       !.admin_password = a, !.lacp_enabled = l,
                       !.stack_file = f] :
        n \in Given("SW1"), i \in Given("10.0.0.2"), g \in Given("10.0.0.1"),
        a \in Given("Secret1"), l \in BOOLEAN, f \in BOOLEAN}
StackFileInterfaces ==
    << translate_full_config(
           parse_interface_config(
               ConfigOutput(Name3(GigabitEthernet, 0, 0, 5), "access")), 1).config >>

(* the interface lists given to generate_simple_config: records of         *)
(* parse_interface_config after translate_full_config                      *)
SimpleInterfaces ==
    {translate_full_config(parse_interface_config(b), 1).config :
        b \in {ScenarioBlock,
               <<LineInterface, LineLinkAccess, LineDefaultVlan, LineSpeed>>,
               <<LineInterface, LineDuplex, LineShutdown>>}}
SimpleRequests ==
    {[NoRequest EXCEPT !.handler = "simple", !.interfaces = q] :
        q \in UNION {[1..n -> SimpleInterfaces] : n \in 0..MaxSimple}}

(***************************************************************************)
(* State.                                                                  *)
(*   pname, punit, ppc, presult, ptrans: one call of the name grammar and  *)
(*     of the translate entry points on the name pname                     *)
(*   pc, switches, cur, all_interfaces, stack_switches, unique_vlans,      *)
(*     stack_summary: the locals of process_stack; switches is the part of *)
(*     the request's list read so far, cur the unit inside the with block  *)
(*   last_iface: the interface the inner loop handled last, with what the  *)
(*     device answers to a fetch of its configuration                      *)
(*   listed: how many entries of brief listings the request has read       *)
(*   extract_in, extract_out: request and response of extract_config       *)
(*   pagain: the translate entry points called again, on their own results *)
(*   cblock, cpc, cparsed, cunit, ctrans: one call of                      *)
(*     parse_interface_config on the block cblock, then of                 *)
(*     translate_full_config on its result                                 *)
(*   rpc, rreq, rout, rprev: the render handlers; rreq is the request body *)
(*     of the call, rout its response, rprev the call before it            *)
(*   isheet, ipc, iout, irender: one call of parse_layer3_excel on the    *)
(*     sheet isheet, iout its answer, irender the answer of                *)
(*     generate_layer3_config to the mappings and eth_trunks of iout       *)
(*   kdev, kpc, kman, kout: one SSHManager; kdev is how its device answers *)
(*     each transport, the pagination command and a command, kman the      *)
(*     manager's fields with the transports connect tried and what it      *)
(*     raised, kout the outcome of execute_command                         *)
(*   breq, bw, bdb, bfiles, bclock, bresults, bfailed: one call of         *)
(*     discover_and_backup: breq is the request's site, fallback           *)
(*     credentials and devices_to_backup; bw[d] is the pool task           *)
(*     backup_device(d) with its position and locals; bdb is the backups   *)
(*     table, bfiles the backup files by name, bclock the wall clock in    *)
(*     seconds; bresults and bfailed are the handler's lists, bout its     *)
(*     response                                                            *)
(***************************************************************************)
VARIABLES pname, punit, ppc, presult, ptrans,
          pc, switches, cur, all_interfaces, stack_switches, unique_vlans,
          stack_summary, last_iface, listed, extract_in, extract_out,
          pagain, cblock, cpc, cparsed, cunit, ctrans, rpc, rreq, rout, rprev,
          isheet, ipc, iout, irender,
          kdev, kpc, kman, kout,
          breq, bw, bdb, bfiles, bclock, bresults, bfailed, bout

nameVars == <<pname, punit, ppc, presult, ptrans, pagain>>
configVars == <<cblock, cpc, cparsed, cunit, ctrans>>
renderVars == <<rpc, rreq, rout, rprev>>
importVars == <<isheet, ipc, iout, irender>>
connectVars == <<kdev, kpc, kman, kout>>
backupVars == <<breq, bw, bdb, bfiles, bclock, bresults, bfailed, bout>>
stackVars == <<pc, switches, cur, all_interfaces, stack_switches, unique_vlans,
               stack_summary, last_iface, listed>>
extractVars == <<extract_in, extract_out>>
vars == <<pname, punit, ppc, presult, ptrans,
          pc, switches, cur, all_interfaces, stack_switches, unique_vlans,
          stack_summary, last_iface, listed, extract_in, extract_out,
          pagain, cblock, cpc, cparsed, cunit, ctrans, rpc, rreq, rout, rprev,
          isheet, ipc, iout, irender,
          kdev, kpc, kman, kout,
          breq, bw, bdb, bfiles, bclock, bresults, bfailed, bout>>

NoCall == [raised |-> FALSE, value |-> NoneName]
NoTrans == [class |-> NoCall, wrapper |-> NoCall, full |-> NoCall]
NoAgain == [class |-> NoCall, wrapper |-> NoCall]
NoConfigTrans == [raised |-> FALSE, config |-> EmptyConfig]
NoCur == [sw |-> [host |-> 0, unit |-> 0, port_count |-> 0], method |-> "None",
          switch_interfaces |-> <<>>]
NoLast == [name |-> NoneName, cfg |-> "", before |-> 0]
NoSummary == [switch_count |-> 0, total_interfaces |-> 0, vlans |-> {},
              switches |-> <<>>]
NoExtractIn == [unit_number |-> 0, switch_type |-> 0, connect |-> "None",
                brief |-> <<>>, disconnect |-> "None"]
NoExtractOut == [status |-> 0, interfaces |-> <<>>, count |-> 0,
                 connection_method |-> "None"]

InitNameVars ==
    /\ punit = 0
    /\ ppc = "new"
    /\ presult = NotRecognized(NoneName)
    /\ ptrans = NoTrans
    /\ pagain = NoAgain
InitStackVars ==
    /\ pc = "units"
    /\ switches = <<>>
    /\ cur = NoCur
    /\ all_interfaces = <<>>
    /\ stack_switches = <<>>
    /\ unique_vlans = {}
    /\ stack_summary = NoSummary
    /\ last_iface = NoLast
    /\ listed = 0
InitExtractVars ==
    /\ extract_in = NoExtractIn
    /\ extract_out = NoExtractOut
InitConfigVars ==
    /\ cpc = "new"
    /\ cparsed = EmptyConfig
    /\ cunit = 0
    /\ ctrans = NoConfigTrans
InitRenderVars ==
    /\ rpc = "idle"
    /\ rreq = NoRequest
    /\ rout = NoResponse
    /\ rprev = NoPrev
InitImportVars ==
    /\ isheet = NoSheet
    /\ ipc = "new"
    /\ iout = ImportFailure
    /\ irender = NoResponse
InitConnectVars ==
    /\ kdev = NoDevice
    /\ kpc = "new"
    /\ kman = NewManager
    /\ kout = NoOutcome
InitBackupVars ==
    /\ breq = NoBackupRequest
    /\ bw = <<>>
    /\ bdb = <<>>
    /\ bfiles = <<>>
    /\ bclock = 0
    /\ bresults = <<>>
    /\ bfailed = <<>>
    /\ bout = NoBackupResponse

(***************************************************************************)
(* The name grammar and the translate entry points, applied to one name.   *)
(***************************************************************************)
InitNames ==
    /\ pname \in GrammarNames
    /\ InitNameVars
    /\ InitStackVars
    /\ InitExtractVars
    /\ cblock = <<>>
    /\ InitConfigVars
    /\ InitRenderVars
    /\ InitImportVars
    /\ InitConnectVars
    /\ InitBackupVars

(* parsed = UniversalInterfaceParser.parse_interface_name(pname) *)
DoParse ==
    /\ ppc = "new"
    /\ presult' = parse_interface_name(pname)
    /\ ppc' = "parsed"
    /\ UNCHANGED <<pname, punit, ptrans, pagain, stackVars, extractVars,
                   configVars, renderVars, importVars, connectVars, backupVars>>

(* the three translate entry points, called with pname and a unit number;  *)
(* translate_full_config gets the record of a block whose interface line   *)
(* names pname (no interface line when pname is None)                      *)
DoTranslate ==
    /\ ppc = "parsed"
    /\ \E u \in UnitNumbers :
         /\ punit' = u
         /\ ptrans' = [class |-> translate_interface_name(pname, u),
                       wrapper |-> wrapper_translate_interface_name(pname, u),
                       full |-> translate_full_config(
                                   [EmptyConfig EXCEPT !.name = pname], u)]
    /\ ppc' = "translated"
    /\ UNCHANGED <<pname, presult, pagain, stackVars, extractVars,
                   configVars, renderVars, importVars, connectVars, backupVars>>

(* each entry point called again with the name it returned and the same    *)
(* unit number                                                             *)
DoRetranslate ==
    /\ ppc = "translated"
    /\ pagain' = [class |-> translate_interface_name(ptrans.class.value, punit),
                  wrapper |-> wrapper_translate_interface_name(
                                  ptrans.wrapper.value, punit)]
    /\ ppc' = "retranslated"
    /\ UNCHANGED <<pname, punit, presult, ptrans, stackVars, extractVars,
                   configVars, renderVars, importVars, connectVars, backupVars>>

NextNames == DoParse \/ DoTranslate \/ DoRetranslate

SpecNames == InitNames /\ [][NextNames]_vars

(***************************************************************************)
(* parse_interface_config applied to one block, then translate_full_config *)
(* applied to its result.                                                  *)
(***************************************************************************)
InitConfig ==
    /\ pname = NoneName
    /\ InitNameVars
    /\ InitStackVars
    /\ InitExtractVars
    /\ cblock \in ConfigBlocks
    /\ InitConfigVars
    /\ InitRenderVars
    /\ InitImportVars
    /\ InitConnectVars
    /\ InitBackupVars

(* config = ConfigParser.parse_interface_config(config_output) *)
DoParseConfig ==
    /\ cpc = "new"
    /\ cparsed' = parse_interface_config(cblock)
    /\ cpc' = "parsed"
    /\ UNCHANGED <<cblock, cunit, ctrans, nameVars, stackVars, extractVars,
                   renderVars, importVars, connectVars, backupVars>>

(* config = InterfaceTranslator.translate_full_config(config, unit, ...) *)
DoTranslateConfig ==
    /\ cpc = "parsed"
    /\ \E u \in UnitNumbers :
         /\ cunit' = u
         /\ ctrans' = translate_full_config(cparsed, u)
    /\ cpc' = "translated"
    /\ UNCHANGED <<cblock, cparsed, nameVars, stackVars, extractVars,
                   renderVars, importVars, connectVars, backupVars>>

NextConfig == DoParseConfig \/ DoTranslateConfig

SpecConfig == InitConfig /\ [][NextConfig]_vars

(***************************************************************************)
(* The render handlers.  Each call is one step.  The first call of a run   *)
(* has any request; a later call posts the request of the call before it   *)
(* again (for generate_layer3_config with any eth_trunks list), and rprev  *)
(* keeps that earlier call.                                                *)
(***************************************************************************)
InitRender ==
    /\ pname = NoneName
    /\ InitNameVars
    /\ InitStackVars
    /\ InitExtractVars
    /\ cblock = <<>>
    /\ InitConfigVars
    /\ InitRenderVars
    /\ InitImportVars
    /\ InitConnectVars
    /\ InitBackupVars

(* data.get(key, default) *)
GetOr(value, default) == IF value = Absent THEN default ELSE value

(* the requests a call may carry in the current state *)
Requests(handler, first) ==
    IF rpc = "idle" THEN first
    ELSE IF rreq.handler # handler THEN {}
    ELSE IF handler = "layer3"
    THEN {[rreq EXCEPT !.eth_trunks = t] : t \in TrunkLists}
    ELSE {rreq}

Serve(req, out) ==
    /\ rreq' = req
    /\ rout' = out
    /\ rprev' = IF rpc = "idle" THEN NoPrev ELSE [req |-> rreq, out |-> rout]
    /\ rpc' = "served"
    /\ UNCHANGED <<cblock, configVars, nameVars, stackVars, extractVars,
                   importVars, connectVars, backupVars>>

(* generate_layer3_config *)
Layer3Response(req) ==
    [status |-> 200, error |-> <<>>,
     config |-> Layer3Lines(req.mappings, req.eth_trunks,
                            GetOr(req.name, "NEW_S6730"), GetOr(req.ip, ""),
                            GetOr(req.gateway, ""),
                            GetOr(req.admin_password, "")),
     stats |-> Layer3Stats(req.mappings, req.eth_trunks)]
GenerateLayer3Config ==
    \E req \in Requests("layer3", Layer3Requests) :
        Serve(req, Layer3Response(req))

(* generate_stack_config: the first required field the body lacks *)
RequiredFields == <<"stack_name", "new_stack_ip", "gateway", "admin_password">>
FieldValue(req, field) ==
    IF field = "stack_name" THEN req.name
    ELSE IF field = "new_stack_ip" THEN req.ip
    ELSE IF field = "gateway" THEN req.gateway
    ELSE req.admin_password
MissingFields(req) ==
    {k \in 1..Len(RequiredFields) : FieldValue(req, RequiredFields[k]) = Absent}
StackResponse(req) ==
    IF MissingFields(req) # {}
    THEN [NoResponse EXCEPT
            !.status = 400,
            !.error = <<"Missing required field: ",
                        RequiredFields[Minimum(MissingFields(req))]>>]
    ELSE IF ~req.stack_file
    THEN [NoResponse EXCEPT
            !.status = 400,
            !.error = <<"Stack data not found. Please process stack first (Step 2)">>]
    ELSE [NoResponse EXCEPT
            !.status = 200,
            !.config = generate_complete_config(
                           StackFileInterfaces, req.name, req.ip, req.gateway,
                           req.admin_password, req.lacp_enabled)]
GenerateStackConfig ==
    \E req \in Requests("stack", StackRequests) :
        Serve(req, StackResponse(req))

(* TemplateGenerator.generate_simple_config *)
SimpleResponse(req) ==
    [NoResponse EXCEPT !.status = 200,
                       !.config = generate_simple_config(req.interfaces)]
GenerateSimpleConfig ==
    \E req \in Requests("simple", SimpleRequests) :
        Serve(req, SimpleResponse(req))

NextRender == GenerateLayer3Config \/ GenerateStackConfig \/ GenerateSimpleConfig

SpecRender == InitRender /\ [][NextRender]_vars

(***************************************************************************)
(* SpecImport: parse_layer3_excel on a sheet, then generate_layer3_config  *)
(* on the mappings and eth_trunks it answered.                             *)
(***************************************************************************)
InitImport ==
    /\ pname = NoneName
    /\ InitNameVars
    /\ InitStackVars
    /\ InitExtractVars
    /\ cblock = <<>>
    /\ InitConfigVars
    /\ InitRenderVars
    /\ isheet \in Sheets
    /\ ipc = "new"
    /\ iout = ImportFailure
    /\ irender = NoResponse
    /\ InitConnectVars
    /\ InitBackupVars

DoImport ==
    /\ ipc = "new"
    /\ iout' = parse_layer3_excel(isheet)
    /\ ipc' = "imported"
    /\ UNCHANGED <<isheet, irender, cblock, configVars, nameVars, stackVars,
                   extractVars, renderVars,
                   connectVars, backupVars>>

(* the page posts the imported mappings and eth_trunks, and no option *)
ImportedRequest(out) ==
    [NoRequest EXCEPT !.handler = "layer3", !.mappings = out.mappings,
                      !.eth_trunks = out.eth_trunks]
DoRenderImported ==
    /\ ipc = "imported"
    /\ iout.status = 200
    /\ irender' = Layer3Response(ImportedRequest(iout))
    /\ ipc' = "rendered"
    /\ UNCHANGED <<isheet, iout, cblock, configVars, nameVars, stackVars,
                   extractVars, renderVars,
                   connectVars, backupVars>>

NextImport == DoImport \/ DoRenderImported

SpecImport == InitImport /\ [][NextImport]_vars

(***************************************************************************)
(* SpecConnect: one SSHManager: connect, then execute_command.             *)
(***************************************************************************)
InitConnect ==
    /\ pname = NoneName
    /\ InitNameVars
    /\ InitStackVars
    /\ InitExtractVars
    /\ cblock = <<>>
    /\ InitConfigVars
    /\ InitRenderVars
    /\ InitImportVars
    /\ kdev \in Devices
    /\ kpc = "new"
    /\ kman = NewManager
    /\ kout = NoOutcome
    /\ InitBackupVars

Connect ==
    /\ kpc = "new"
    /\ kman' = SSHManager_connect(kman, kdev)
    /\ kpc' = "connected"
    /\ UNCHANGED <<kdev, kout, cblock, configVars, nameVars, stackVars,
                   extractVars, renderVars, importVars,
                   backupVars>>

ExecuteCommand ==
    /\ kpc = "connected"
    /\ kout' = SSHManager_execute_command(kman, kdev)
    /\ kpc' = "executed"
    /\ UNCHANGED <<kdev, kman, cblock, configVars, nameVars, stackVars,
                   extractVars, renderVars, importVars,
                   backupVars>>

Disconnect ==
    /\ kpc \in {"connected", "executed"}
    /\ kman' = SSHManager_disconnect(kman, kdev)
    /\ kpc' = IF kman.connection /\ kdev.close = "fail" THEN "close_failed"
              ELSE "closed"
    /\ UNCHANGED <<kdev, kout, cblock, configVars, nameVars, stackVars,
                   extractVars, renderVars, importVars,
                   backupVars>>

NextConnect == Connect \/ ExecuteCommand \/ Disconnect

SpecConnect == InitConnect /\ [][NextConnect]_vars

(***************************************************************************)
(* SpecBackup: the pool tasks of one discover_and_backup call.  A task is  *)
(* backup_device(d): sessions with the credentials of the device in turn,  *)
(* then save_backup, whose reads and writes of the table and of the files  *)
(* are steps that the tasks of other workers interleave with.              *)
(***************************************************************************)
InitBackup ==
    /\ pname = NoneName
    /\ InitNameVars
    /\ InitStackVars
    /\ InitExtractVars
    /\ cblock = <<>>
    /\ InitConfigVars
    /\ InitRenderVars
    /\ InitImportVars
    /\ InitConnectVars
    /\ breq \in BackupRequests
    /\ bw = [d \in 1..MaxDevices |-> NewTask]
    /\ bdb = <<>>
    /\ bfiles = <<>>
    /\ bclock = 0
    /\ bresults = <<>>
    /\ bfailed = <<>>
    /\ bout = NoBackupResponse

Busy(tasks) ==
    Cardinality({d \in DOMAIN tasks :
                    tasks[d].pc \in {"running", "check", "write", "insert"}})
otherVarsOfBackup ==
    <<cblock, configVars, nameVars, stackVars, extractVars, renderVars,
      importVars, connectVars>>

(* a worker takes the next task from the executor's queue, which holds    *)
(* the tasks in the order of their submission                              *)
StartTask(d) ==
    /\ bw[d].pc = "queued"
    /\ \A e \in DOMAIN bw : e < d => bw[e].pc # "queued"
    /\ PoolHasIdleWorker(Busy(bw))
    /\ bw' = [bw EXCEPT ![d].pc = "running"]
    /\ UNCHANGED <<breq, bdb, bfiles, bclock, bresults, bfailed, bout,
                   otherVarsOfBackup>>

(* one turn of "for idx, creds in enumerate(credentials_to_try)": the      *)
(* session with the device, and the except branch when it fails            *)
AttemptOutcome(task, creds, outcome, config) ==
    IF outcome = "ok"
    THEN [task EXCEPT !.attempts = Append(@, [cred |-> creds[task.idx + 1],
                                             outcome |-> outcome]),
                      !.config = config, !.pc = "check"]
    ELSE IF TriesNext(SessionError(outcome), task.idx, Len(creds))
    THEN [task EXCEPT !.attempts = Append(@, [cred |-> creds[task.idx + 1],
                                             outcome |-> outcome]),
                      !.idx = @ + 1]
    ELSE [task EXCEPT !.attempts = Append(@, [cred |-> creds[task.idx + 1],
                                             outcome |-> outcome]),
                      !.pc = "returned",
                      !.result = Failure(SessionError(outcome))]
Attempt(d) ==
    /\ bw[d].pc = "running"
    /\ \E outcome \in SessionOutcomes, config \in BackupConfigs :
          /\ outcome # "ok" => config = <<"a">>
          /\ bw' = [bw EXCEPT ![d] = AttemptOutcome(
                        bw[d], credentials_to_try(breq.devices[d]), outcome,
                        IF outcome = "ok" THEN config ELSE <<>>)]
    /\ UNCHANGED <<breq, bdb, bfiles, bclock, bresults, bfailed, bout,
                   otherVarsOfBackup>>

(* save_backup: existing = database.check_config_exists(...) *)
CheckOutcome(task, existing) ==
    IF existing # 0
    THEN [task EXCEPT !.pc = "returned",
                      !.result = Success(existing, FALSE, TRUE, task.idx)]
    ELSE [task EXCEPT !.pc = "write"]
SaveCheck(d) ==
    /\ bw[d].pc = "check"
    /\ bw' = [bw EXCEPT ![d] = CheckOutcome(
                  bw[d], check_config_exists(bdb, hash_config(bw[d].config),
                                             SiteOf(breq.sito, breq.devices[d])))]
    /\ UNCHANGED <<breq, bdb, bfiles, bclock, bresults, bfailed, bout,
                   otherVarsOfBackup>>

(* save_backup: the file name from the clock, and the write *)
SaveWrite(d) ==
    /\ bw[d].pc = "write"
    /\ bfiles' = WriteFile(bfiles,
                           BackupFile(SiteOf(breq.sito, breq.devices[d]), bclock),
                           bw[d].config)
    /\ bw' = [bw EXCEPT ![d].pc = "insert",
                        ![d].filename =
                            BackupFile(SiteOf(breq.sito, breq.devices[d]), bclock)]
    /\ UNCHANGED <<breq, bdb, bclock, bresults, bfailed, bout,
                   otherVarsOfBackup>>

(* save_backup: insert_backup, the previous backup, the result *)
SaveInsert(d) ==
    /\ bw[d].pc = "insert"
    /\ bdb' = Append(bdb, BackupRecord(Len(bdb) + 1,
                                       SiteOf(breq.sito, breq.devices[d]),
                                       breq.devices[d].ip, bw[d].filename,
                                       bw[d].config))
    /\ bw' = [bw EXCEPT
                ![d].pc = "returned",
                ![d].result =
                    Success(Len(bdb) + 1,
                            HasChanges(bdb, bfiles,
                                       SiteOf(breq.sito, breq.devices[d]),
                                       Len(bdb) + 1, bw[d].config),
                            FALSE, bw[d].idx)]
    /\ UNCHANGED <<breq, bfiles, bclock, bresults, bfailed, bout,
                   otherVarsOfBackup>>

(* for future in as_completed(futures) *)
Collect(d) ==
    /\ bw[d].pc = "returned"
    /\ bw' = [bw EXCEPT ![d].pc = "collected"]
    /\ IF bw[d].result.success
       THEN /\ bresults' = Append(bresults, [ip |-> breq.devices[d].ip,
                                             result |-> bw[d].result])
            /\ UNCHANGED bfailed
       ELSE /\ bfailed' = Append(bfailed, [ip |-> breq.devices[d].ip,
                                           result |-> bw[d].result])
            /\ UNCHANGED bresults
    /\ UNCHANGED <<breq, bdb, bfiles, bclock, bout,
                   otherVarsOfBackup>>

(* a second passes *)
Tick ==
    /\ bclock < MaxClock
    /\ \E d \in DOMAIN bw : bw[d].pc # "collected"
    /\ bclock' = bclock + 1
    /\ UNCHANGED <<breq, bw, bdb, bfiles, bresults, bfailed, bout,
                   otherVarsOfBackup>>

(* the executor has shut down: the response *)
Respond ==
    /\ bout = NoBackupResponse
    /\ \A d \in DOMAIN bw : bw[d].pc = "collected"
    /\ bout' = BackupResponse(breq.devices, bresults, bfailed)
    /\ UNCHANGED <<breq, bw, bdb, bfiles, bclock, bresults, bfailed,
                   otherVarsOfBackup>>

NextBackup ==
    \/ \E d \in 1..MaxDevices :
          StartTask(d) \/ Attempt(d) \/ SaveCheck(d) \/ SaveWrite(d)
             \/ SaveInsert(d) \/ Collect(d)
    \/ Tick
    \/ Respond

SpecBackup == InitBackup /\ [][NextBackup]_vars

(***************************************************************************)
(* SpecPool: the pool of create_subnet_backup over the addresses of a      *)
(* subnet.  Every address is its own site, so the save_backup calls of     *)
(* different tasks touch different rows and files and a task is one step.  *)
(***************************************************************************)
SubnetRequest(n) ==
    [sito |-> 0, all_credentials |-> <<>>,
     devices |-> [d \in 1..n |-> DeviceToBackup(d, FALSE, <<>>)]]

InitPool ==
    /\ pname = NoneName
    /\ InitNameVars
    /\ InitStackVars
    /\ InitExtractVars
    /\ cblock = <<>>
    /\ InitConfigVars
    /\ InitRenderVars
    /\ InitImportVars
    /\ InitConnectVars
    /\ \E n \in 1..MaxPoolDevices :
          /\ breq = SubnetRequest(n)
          /\ bw = [d \in 1..n |-> NewTask]
    /\ bdb = <<>>
    /\ bfiles = <<>>
    /\ bclock = 0
    /\ bresults = <<>>
    /\ bfailed = <<>>
    /\ bout = NoBackupResponse

(* backup_single(ip): the session, then save_backup; any exception is the  *)
(* task's failure                                                          *)
SingleOutcome(task, outcome, saved) ==
    IF outcome = "ok"
    THEN [task EXCEPT !.pc = "returned", !.config = <<"a">>,
                      !.result = saved.result]
    ELSE [task EXCEPT !.pc = "returned",
                      !.result = Failure(SessionError(outcome))]
BackupSingle(d) ==
    /\ bw[d].pc = "running"
    /\ \E outcome \in SessionOutcomes :
          /\ bw' = [bw EXCEPT ![d] = SingleOutcome(
                        bw[d], outcome,
                        save_backup(bdb, bfiles, bclock, breq.devices[d].ip,
                                    breq.devices[d].ip, <<"a">>))]
          /\ bdb' = IF outcome = "ok"
                    THEN save_backup(bdb, bfiles, bclock, breq.devices[d].ip,
                                     breq.devices[d].ip, <<"a">>).db
                    ELSE bdb
          /\ bfiles' = IF outcome = "ok"
                       THEN save_backup(bdb, bfiles, bclock, breq.devices[d].ip,
                                        breq.devices[d].ip, <<"a">>).files
                       ELSE bfiles
    /\ UNCHANGED <<breq, bclock, bresults, bfailed, bout, otherVarsOfBackup>>

NextPool ==
    \/ \E d \in 1..MaxPoolDevices : d \in DOMAIN bw /\ StartTask(d)
    \/ \E d \in 1..MaxPoolDevices : d \in DOMAIN bw /\ BackupSingle(d)
    \/ \E d \in 1..MaxPoolDevices : d \in DOMAIN bw /\ Collect(d)
    \/ Tick
    \/ Respond

SpecPool == InitPool /\ [][NextPool]_vars

(***************************************************************************)
(* Claims about the name grammar and the translator (SpecNames).           *)
(***************************************************************************)
MatchingRules(s) ==
    {i \in 1..Len(INTERFACE_PATTERNS) : PatternMatches(INTERFACE_PATTERNS[i], s)}
MatchingFormats(s) == {INTERFACE_PATTERNS[i].format : i \in MatchingRules(s)}

(* C6: parse_interface_name returns the result of the first rule of the    *)
(* table that matches: a name a three-segment rule matches is classified   *)
(* "full", a name only two-segment (and generic) rules match "slot_port",  *)
(* a name only the generic rule matches "generic", and a name no rule      *)
(* matches is not recognized.                                              *)
C6_FirstMatchingRule ==
    (ppc # "new" /\ pname # NoneName) =>
        LET rules == MatchingRules(pname)
            formats == MatchingFormats(pname)
        IN  /\ presult.recognized <=> rules # {}
            /\ \A i \in rules :
                   (\A j \in rules : i <= j) =>
                       presult.vendor_type = INTERFACE_PATTERNS[i].name
            /\ "full" \in formats => presult.format = "full"
            /\ ("full" \notin formats /\ "slot_port" \in formats) =>
                   presult.format = "slot_port"
            /\ formats = {"generic"} => presult.format = "generic"

C6_Witness ==
    /\ ppc = "parsed"
    /\ MatchingFormats(pname) = {"full", "slot_port", "generic"}
    /\ presult.format = "full"

(* the whole string s is the prefix of rule p followed by its segments *)
FullyMatches(p, s) ==
    /\ p.format # "generic"
    /\ PatternMatches(p, s)
    /\ LET segs == PatternGroups(p, s).nums IN
       Len(s) = Len(p.prefix) + (Len(segs) - 1)
                  + Len(segs[1]) + Len(segs[2])
                  + (IF Len(segs) = 3 THEN Len(segs[3]) ELSE 0)
(* the whole string s is a generic prefix followed by digits and slashes *)
FullyMatchesGeneric(s) ==
    /\ GenericAlternatives(s) # {}
    /\ LET w == GenericPrefixes[Minimum(GenericAlternatives(s))] IN
       \A k \in (Len(w) + 1)..Len(s) : IsDigit(s[k]) \/ s[k] = "/"
(* the (stack, slot, port) the segments of a well-formed name spell *)
KnownTriple(p, s) ==
    LET segs == PatternGroups(p, s).nums IN
    IF p.format = "full" THEN <<IntOf(segs[1]), IntOf(segs[2]), IntOf(segs[3])>>
    ELSE <<0, IntOf(segs[1]), IntOf(segs[2])>>

(* C7: a name that is a supported prefix followed by its numeric segments  *)
(* parses to exactly the triple it spells; every other string is not       *)
(* recognized; parsing a string never raises.                              *)
C7_ParseRecoversTriple ==
    (ppc # "new" /\ pname # NoneName) =>
        /\ ~presult.raised
        /\ \A i \in 1..Len(INTERFACE_PATTERNS) :
               FullyMatches(INTERFACE_PATTERNS[i], pname) =>
                   /\ presult.recognized
                   /\ extract_interface_number(pname)
                        = KnownTriple(INTERFACE_PATTERNS[i], pname)
        /\ ( /\ \A i \in 1..Len(INTERFACE_PATTERNS) :
                    ~FullyMatches(INTERFACE_PATTERNS[i], pname)
             /\ ~FullyMatchesGeneric(pname) )
           => ~presult.recognized

(* C8: a recognized result has natural-number stack, slot and port, and    *)
(* the stack is 0 whenever the name has fewer than three numeric segments. *)
C8_StackZeroWithoutStackSegment ==
    (ppc # "new" /\ presult.recognized) =>
        /\ presult.stack \in Nat /\ presult.slot \in Nat /\ presult.port \in Nat
        /\ Len(FindAllNumbers(pname, 1)) < 3 => presult.stack = 0

(* the name with its prefix replaced by w *)
WithPrefix(s, parsed, w) == w \o SubSeq(s, Len(parsed.prefix) + 1, Len(s))
(* the three-segment name with its stack segment replaced by digits d *)
WithStack(s, parsed, d) ==
    LET from == Len(parsed.prefix) + 1 IN
    parsed.prefix \o d \o SubSeq(s, from + DigitRun(s, from), Len(s))

(* C9: a recognized name translates to "GE u/slot/port" of its parsed slot *)
(* and port, and a recognized name that differs from it only in the prefix *)
(* or in the stack segment translates to the same name.                    *)
C9_TranslationFormat ==
    (ppc = "translated" /\ presult.recognized) =>
        /\ ptrans.class =
              [raised |-> FALSE,
               value |-> <<"G", "E", " ">> \o Dec(punit) \o <<"/">>
                           \o Dec(presult.slot) \o <<"/">> \o Dec(presult.port)]
        /\ \A j \in 1..Len(GenericPrefixes) :
               LET other == WithPrefix(pname, presult, GenericPrefixes[j]) IN
               parse_interface_name(other).recognized =>
                   translate_interface_name(other, punit) = ptrans.class
        /\ presult.format = "full" =>
               \A d \in {<<"0">>, <<"1">>, <<"5">>} :
                   translate_interface_name(WithStack(pname, presult, d), punit)
                       = ptrans.class

(* C10: for a name the grammar does not recognize (None included) every    *)
(* translate entry point returns the name unchanged and raises nothing.    *)
C10_TranslationDegradesGracefully ==
    (ppc = "translated" /\ ~presult.recognized) =>
        /\ ptrans.class = [raised |-> FALSE, value |-> pname]
        /\ ptrans.wrapper = [raised |-> FALSE, value |-> pname]
        /\ ~ptrans.full.raised
        /\ ptrans.full.config.name = pname

(* C11: translating a recognized name and translating the result again    *)
(* with the same unit gives the same canonical name, through the parser's  *)
(* own parse / translate_to_new_format pair and through the translator.    *)
C11_TranslationIdempotent ==
    (ppc = "retranslated" /\ presult.recognized) =>
        /\ pagain.wrapper = [raised |-> FALSE, value |-> ptrans.wrapper.value]
        /\ pagain.class = [raised |-> FALSE, value |-> ptrans.class.value]

(***************************************************************************)
(* Claims about parse_interface_config and translate_full_config           *)
(* (SpecConfig).                                                           *)
(***************************************************************************)
(* the lines of cblock that belong to the set S, in their order *)
InBlock(S) == SelectSeq(cblock, LAMBDA l : l \in S)
(* the lines of cblock that do not belong to the set S, in their order *)
Without(S) == SelectSeq(cblock, LAMBDA l : l \notin S)
ExplicitLines == {LineLinkAccess, LineLinkTrunk}
AccessVlanLines == {LineDefaultVlan, LineAccessVlan}
TrunkVlanLines == {LineAllowPass, LineAllowPassTwo, LinePermitAll}
ModeOfLine(l) ==
    IF l \in {LineLinkAccess} \cup AccessVlanLines THEN "access" ELSE "trunk"
LastOf(q) == q[Len(q)]

(* C12: the link mode of the result is the mode of the block's last        *)
(* explicit link-type line; when the block has no such line it is the mode *)
(* its first access-VLAN or trunk-permit line implies, and unset when it   *)
(* has none: an inferred mode never overrides an explicit one.             *)
C12_LinkModeInference ==
    cpc # "new" =>
        cparsed.port_link_type =
            IF InBlock(ExplicitLines) # <<>>
            THEN ModeOfLine(LastOf(InBlock(ExplicitLines)))
            ELSE IF InBlock(AccessVlanLines \cup TrunkVlanLines) # <<>>
            THEN ModeOfLine(InBlock(AccessVlanLines \cup TrunkVlanLines)[1])
            ELSE "None"

C12_Witness ==
    /\ cpc = "parsed"
    /\ cblock = <<LineLinkTrunk, LineDefaultVlan>>
    /\ cparsed.port_link_type = "trunk"
    /\ cparsed.vlan = 10

(* the structured fields of a record *)
Structured(c) ==
    [name |-> c.name, description |-> c.description,
     port_link_type |-> c.port_link_type, vlan |-> c.vlan,
     trunk_vlans |-> c.trunk_vlans, speed |-> c.speed, duplex |-> c.duplex,
     shutdown |-> c.shutdown]

Orderings(n) == {f \in [1..n -> 1..n] : \A i, j \in 1..n : f[i] = f[j] => i = j}
Permuted(block) ==
    {[i \in 1..Len(block) |-> block[f[i]]] : f \in Orderings(Len(block))}

(* C13: every permutation of the lines of the block gives the same         *)
(* structured fields.                                                      *)
C13_LineOrderIrrelevant ==
    cpc # "new" =>
        \A q \in Permuted(cblock) :
            Structured(parse_interface_config(q)) = Structured(cparsed)

(* C14: in the parsed record, and in the translated one, link mode access  *)
(* comes with no trunk VLANs and link mode trunk with no access VLAN.      *)
ModeExclusive(c) ==
    /\ c.port_link_type = "access" => c.trunk_vlans = <<>>
    /\ c.port_link_type = "trunk" => c.vlan = NoneInt
C14_ModeExclusiveVlans ==
    /\ cpc # "new" => ModeExclusive(cparsed)
    /\ cpc = "translated" => ModeExclusive(ctrans.config)

(* C15: when the block's trunk-permit line (the last, if several) has the  *)
(* all-VLANs keyword, trunk_vlans is 2, 3, ..., 4094; when it lists 10 20  *)
(* 30 (or 10 20), trunk_vlans is exactly that list.                        *)
C15_TrunkVlanNormalization ==
    (cpc # "new" /\ InBlock(TrunkVlanLines) # <<>>) =>
        /\ LastOf(InBlock(TrunkVlanLines)) = LinePermitAll =>
               cparsed.trunk_vlans = [i \in 1..4093 |-> i + 1]
        /\ LastOf(InBlock(TrunkVlanLines)) = LineAllowPass =>
               cparsed.trunk_vlans = <<10, 20, 30>>
        /\ LastOf(InBlock(TrunkVlanLines)) = LineAllowPassTwo =>
               cparsed.trunk_vlans = <<10, 20>>

C15_Witness ==
    /\ cpc = "parsed"
    /\ cblock = <<LineAllowPass, LinePermitAll>>
    /\ Len(cparsed.trunk_vlans) = 4093
    /\ cparsed.trunk_vlans[1] = 2
    /\ cparsed.trunk_vlans[4093] = 4094

(* a line of the model without its indentation *)
Unindented(l) == IF l # <<>> /\ l[1] = " " THEN Tail(l) ELSE l
RawLinesOf(q) == [k \in 1..Len(q) |-> Unindented(q[k])]

(* C16: every block gives a record; without an interface line its name is  *)
(* null; removing the unrecognized lines of the block changes no           *)
(* structured field; raw_config is the non-empty, non-comment lines of the *)
(* block, in their order.                                                  *)
C16_ParserTotalAndLossless ==
    cpc # "new" =>
        /\ InBlock({LineInterface}) = <<>> => cparsed.name = NoneName
        /\ Structured(parse_interface_config(Without({LineOther})))
              = Structured(cparsed)
        /\ cparsed.raw_config =
              RawLinesOf(Without({LineBlank, LineComment}))

C16_Witness ==
    /\ cpc = "parsed"
    /\ cblock = <<LineComment, LineOther, LineBlank>>
    /\ cparsed.name = NoneName
    /\ cparsed.raw_config = <<Tail(LineOther)>>

(* C17: after translate_full_config the record has the translated name,    *)
(* original_name is the name it had, and every other field is as parsed;   *)
(* the scenario block translated with unit 2 is "GE 2/0/5", trunk, 10 20.  *)
C17_TranslateChangesOnlyName ==
    cpc = "translated" =>
        /\ ~ctrans.raised
        /\ ctrans.config.original_name = cparsed.name
        /\ ctrans.config.name =
              <<"G", "E", " ">> \o Dec(cunit) \o <<"/", "0", "/", "5">>
        /\ Structured([ctrans.config EXCEPT !.name = cparsed.name])
              = Structured(cparsed)
        /\ ctrans.config.raw_config = cparsed.raw_config
        /\ (cblock = ScenarioBlock /\ cunit = 2) =>
              /\ ctrans.config.name = <<"G", "E", " ", "2", "/", "0", "/", "5">>
              /\ ctrans.config.port_link_type = "trunk"
              /\ ctrans.config.trunk_vlans = <<10, 20>>

(***************************************************************************)
(* Claims about the renderers (SpecRender).                                *)
(***************************************************************************)
(* the positions of a line in a configuration *)
LinesAt(config, line) == {i \in 1..Len(config) : config[i] = line}
EthTrunkHeader(n) == <<"interface Eth-Trunk">> \o Dec(n)
EthTrunkMember(n) == <<" eth-trunk ">> \o Dec(n)

(* C18: in a rendered Layer-3 configuration every Eth-Trunk group that a   *)
(* physical interface block references has exactly one Eth-Trunk block     *)
(* (link-type trunk, VLANs 2 to 4094, LACP mode), and that block comes     *)
(* before every physical interface block.                                  *)
C18_EthTrunkBlocksFirst ==
    (rpc = "served" /\ rreq.handler = "layer3" /\ rout.status = 200) =>
        \A n \in TrunkIds :
            LinesAt(rout.config, EthTrunkMember(n)) # {} =>
                /\ Cardinality(LinesAt(rout.config, EthTrunkHeader(n))) = 1
                /\ \A i \in LinesAt(rout.config, EthTrunkHeader(n)) :
                       /\ rout.config[i + 1] = <<" port link-type trunk">>
                       /\ rout.config[i + 2] =
                              <<" port trunk allow-pass vlan 2 to 4094">>
                       /\ rout.config[i + 3] = <<" mode lacp">>
                       /\ \A j \in LinesAt(rout.config, <<"interface ", NewPort>>) :
                              i < j

(* C19: a call of a complete-configuration renderer whose request lacks    *)
(* the sysname, the management IP, the gateway or the admin password       *)
(* answers with an error that names a missing field and with no            *)
(* configuration; a rendered admin password or management IP is the one    *)
(* the request gave.                                                       *)
C19_MissingOptionFails ==
    (rpc = "served" /\ rreq.handler \in {"layer3", "stack"}) =>
        /\ (Absent \in {rreq.name, rreq.ip, rreq.gateway, rreq.admin_password}) =>
              /\ rout.status = 400
              /\ rout.config = <<>>
              /\ Len(rout.error) = 2
              /\ rout.error[1] = "Missing required field: "
        /\ \A i \in 1..Len(rout.config) :
              Len(rout.config[i]) >= 2 =>
                 /\ rout.config[i][1]
                       = "local-user admin password irreversible-cipher "
                       => (rout.config[i][2] = rreq.admin_password
                           /\ rreq.admin_password # Absent)
                 /\ rout.config[i][1] = " ip address "
                       => (rout.config[i][2] = rreq.ip /\ rreq.ip # Absent)

(* two eth_trunks lists with the same members *)
SameMembers(a, b) ==
    /\ Len(a) = Len(b)
    /\ \A n \in TrunkIds :
           Cardinality({i \in 1..Len(a) : a[i] = n})
              = Cardinality({i \in 1..Len(b) : b[i] = n})

(* C20: a call that repeats the mappings (or interface list) and options   *)
(* of the call before it, with the same eth-trunk IDs in any order,        *)
(* returns the same response, configuration text included.                 *)
C20_RenderDeterministic ==
    ( /\ rpc = "served"
      /\ rprev.req.handler # "None"
      /\ [rprev.req EXCEPT !.eth_trunks = rreq.eth_trunks] = rreq
      /\ SameMembers(rprev.req.eth_trunks, rreq.eth_trunks) ) =>
        /\ rout.config = rprev.out.config
        /\ rout = rprev.out

C20_Witness ==
    /\ rpc = "served"
    /\ rreq.handler = "layer3"
    /\ Len(rreq.mappings) = 2
    /\ rprev.req.eth_trunks = <<2, 1>>
    /\ rreq.eth_trunks = <<1, 2>>
    /\ rout.config = rprev.out.config
    /\ LinesAt(rout.config, EthTrunkHeader(1)) # {}

(***************************************************************************)
(* Claims about the Layer-3 import (SpecImport).                           *)
(***************************************************************************)
(* what the sheet says, read from its cells: the rows whose new-port cell  *)
(* is an interface declaration, the group an eth-trunk label names, the    *)
(* integers of a config-2 cell, the VLAN and PVID of a config-1 cell       *)
Imported == ipc # "new" /\ iout.status = 200
DeclaresInterface(row) == row[3] = PortCellInterface
DeclaredRows == SelectSeq(isheet.rows, DeclaresInterface)
LabelGroup(label) ==
    IF label = LabelScenario THEN 5 ELSE IF label = LabelZero THEN 0 ELSE NoneInt
SecondColumn(row) == IF isheet.width > 7 THEN row[8] ELSE NoneName
ColumnIntegers(cell) ==
    IF cell \in {CellAllowTwo, CellPermitTwo} THEN <<10, 20>> ELSE <<>>
ColumnVlan(cell) ==
    IF cell = CellPvid THEN 20 ELSE IF cell = CellDefaultVlan THEN 10 ELSE NoneInt
ColumnPvid(cell) == IF cell = CellPvid THEN 20 ELSE NoneInt
ColumnLinkType(cell) ==
    IF cell = NoneName THEN "None" ELSE IF cell = KwAccess THEN "access" ELSE "trunk"
RowsMatch == Len(iout.mappings) = Len(DeclaredRows)

(* C21: the eth_trunk of an imported mapping is N exactly when the label   *)
(* cell of its row matches "eth-trunk N" in any letter case, and is null   *)
(* otherwise; the reported eth_trunks list is the strictly increasing list *)
(* of the non-null eth_trunk values of the mappings; total_mappings is the *)
(* number of mappings.                                                     *)
C21_EthTrunkAccounting ==
    (Imported /\ RowsMatch) =>
        /\ \A k \in 1..Len(iout.mappings) :
               iout.mappings[k].eth_trunk = LabelGroup(DeclaredRows[k][5])
        /\ \A i \in 1..(Len(iout.eth_trunks) - 1) :
               iout.eth_trunks[i] < iout.eth_trunks[i + 1]
        /\ {iout.eth_trunks[i] : i \in 1..Len(iout.eth_trunks)}
              = {iout.mappings[k].eth_trunk : k \in 1..Len(iout.mappings)}
                   \ {NoneInt}
        /\ iout.total_mappings = Len(iout.mappings)
(* C21 witness: a sheet whose two rows carry the labels "Eth-Trunk 5" and  *)
(* "eth-trunk0" is imported with groups 5 and 0, reported as 0, 5.         *)
C21_Witness ==
    /\ Imported
    /\ Len(iout.mappings) = 2
    /\ iout.mappings[1].eth_trunk = 5
    /\ iout.mappings[2].eth_trunk = 0
    /\ iout.eth_trunks = <<0, 5>>
    /\ iout.total_mappings = 2

(* the interface blocks of a rendered configuration: after the line        *)
(* "# Interface Configuration" every "#" line starts a block, the last     *)
(* one the footer                                                          *)
SectionStart(config) == Minimum(LinesAt(config, <<"# Interface Configuration">>))
BlockStarts(config) ==
    SortedSet({i \in LinesAt(config, <<"#">>) : i > SectionStart(config)})
BlockBetween(config, starts, k) ==
    SubSeq(config, starts[k] + 1, starts[k + 1] - 1)
BlockOf(config, k) == BlockBetween(config, BlockStarts(config), k)
HasLine(block, line) == \E i \in 1..Len(block) : block[i] = line
HasLineStarting(block, pieces) ==
    \E i \in 1..Len(block) : Len(block[i]) >= 1 /\ block[i][1] \in pieces
AllVlansLine == <<" port trunk allow-pass vlan 2 to 4094">>

(* C22: a mapping whose config-2 cell contains "2 to 4094" has no explicit *)
(* trunk_vlans list, any other mapping has the list of every integer of    *)
(* that cell; and the block of a mapping has the line "port trunk          *)
(* allow-pass vlan 2 to 4094" only if the mapping is a trunk without an    *)
(* explicit list.                                                          *)
C22_TrunkVlansFromSecondColumn ==
    (Imported /\ RowsMatch) =>
        /\ \A k \in 1..Len(iout.mappings) :
               iout.mappings[k].trunk_vlans =
                   IF Contains(SecondColumn(DeclaredRows[k]), KwAllRange)
                   THEN <<>>
                   ELSE ColumnIntegers(SecondColumn(DeclaredRows[k]))
        /\ ipc = "rendered" =>
               \A k \in 1..Len(iout.mappings) :
                   HasLine(BlockOf(irender.config, k), AllVlansLine) =>
                       /\ iout.mappings[k].link_type = "trunk"
                       /\ iout.mappings[k].trunk_vlans = <<>>

(* C23: the import of any sheet succeeds; its mappings are those of the    *)
(* rows whose new-port cell is an interface declaration, one each and in   *)
(* row order, with every field its cell does not give left null.           *)
C23_ImportNeverFails ==
    ipc # "new" =>
        /\ iout.status = 200
        /\ RowsMatch
        /\ \A k \in 1..Len(iout.mappings) :
               /\ iout.mappings[k].new_port = XPort
               /\ iout.mappings[k].old_port = NoneName
               /\ iout.mappings[k].description = NoneName
               /\ iout.mappings[k].eth_trunk = LabelGroup(DeclaredRows[k][5])
               /\ iout.mappings[k].link_type = ColumnLinkType(DeclaredRows[k][6])
               /\ iout.mappings[k].vlan = ColumnVlan(DeclaredRows[k][7])
               /\ iout.mappings[k].pvid = ColumnPvid(DeclaredRows[k][7])

(* C30: in the configuration rendered from imported mappings, the block of *)
(* a mapping with an eth-trunk group N has the line "eth-trunk N" and no   *)
(* link-type, pvid, allow-pass or default-vlan line; the block of a        *)
(* mapping without a group has no eth-trunk line and the link-type line of *)
(* its link type; stats.interfaces is the number of mappings and           *)
(* trunk_ports + access_ports the number of mappings without a group that  *)
(* have a link type.                                                       *)
PortModePieces ==
    {" port link-type trunk", " port link-type access", " port trunk pvid vlan ",
     " port trunk allow-pass vlan ", " port trunk allow-pass vlan 2 to 4094",
     " port default vlan "}
BlockFollowsGroup(m, block) ==
    IF m.eth_trunk # NoneInt
    THEN /\ HasLine(block, EthTrunkMember(m.eth_trunk))
         /\ ~HasLineStarting(block, PortModePieces)
    ELSE /\ ~HasLineStarting(block, {" eth-trunk "})
         /\ m.link_type = "trunk" <=> HasLine(block, <<" port link-type trunk">>)
         /\ m.link_type = "access" <=> HasLine(block, <<" port link-type access">>)
C30_EthTrunkMemberBlocks ==
    ipc = "rendered" =>
        /\ \A k \in 1..Len(iout.mappings) :
               BlockFollowsGroup(iout.mappings[k], BlockOf(irender.config, k))
        /\ irender.stats.interfaces = Len(iout.mappings)
        /\ irender.stats.trunk_ports + irender.stats.access_ports
              = Cardinality({k \in 1..Len(iout.mappings) :
                                /\ iout.mappings[k].eth_trunk = NoneInt
                                /\ iout.mappings[k].link_type # "None"})

(***************************************************************************)
(* Claims about SSHManager (SpecConnect).                                  *)
(***************************************************************************)
(* what connect did: the transports in the order tried, whether both       *)
(* failed, and what it must not have changed when it raised                *)
TriedTelnet == \E i \in 1..Len(kman.tried) : kman.tried[i] = "Telnet"
BothFail == kdev.ssh \in {"timeout", "refused"} /\ kdev.telnet # "ok"
OrderAndSuccess ==
    /\ kman.tried # <<>> /\ kman.tried[1] = "SSH"
    /\ TriedTelnet <=> kdev.ssh \in {"timeout", "refused"}
    /\ kdev.ssh = "auth" =>
           /\ kman.tried = <<"SSH">>
           /\ kman.raised = <<"Authentication failed: Invalid username or password">>
    /\ kman.raised = <<>> =>
           /\ kpc \in {"connected", "executed"} => kman.connection
           /\ kman.connection_method = kman.tried[Len(kman.tried)]
           /\ kman.connection_method = "SSH" => kdev.ssh = "ok"
           /\ kman.connection_method = "Telnet" => kdev.telnet = "ok"
    /\ kman.raised # <<>> =>
           /\ ~kman.connection
           /\ kman.connection_method = "None"
           /\ kout # NoOutcome => kout.raised = <<"Not connected to switch">>

(* C27 as stated: connect tries SSH first and Telnet only after an SSH     *)
(* failure that is not an authentication failure; on success               *)
(* connection_method names the transport that succeeded; when both         *)
(* transports fail the error raised reports both failures, connection      *)
(* stays unset and execute_command raises "Not connected to switch".       *)
C27_ConnectAsStated ==
    kpc # "new" =>
        /\ OrderAndSuccess
        /\ BothFail =>
               kman.raised = <<"Connection failed - SSH: ", kdev.ssh,
                               ", Telnet: ", kdev.telnet>>

(* C27 amended: as above, except that when Telnet fails with an            *)
(* authentication failure the error raised is the authentication error     *)
(* alone; the error reports both failures when Telnet fails otherwise.     *)
C27_ConnectFallback ==
    kpc # "new" =>
        /\ OrderAndSuccess
        /\ BothFail =>
               kman.raised =
                   IF kdev.telnet = "auth"
                   THEN <<"Authentication failed: Invalid username or password">>
                   ELSE <<"Connection failed - SSH: ", kdev.ssh,
                          ", Telnet: ", kdev.telnet>>
(* C27 witness: SSH times out, Telnet refuses the credentials, and the     *)
(* command issued afterwards finds no connection.                          *)
C27_Witness ==
    /\ kout # NoOutcome
    /\ kdev.ssh = "timeout"
    /\ kdev.telnet = "auth"
    /\ kman.tried = <<"SSH", "Telnet">>
    /\ ~kman.connection
    /\ kout.raised = <<"Not connected to switch">>

(***************************************************************************)
(* Claims about discover_and_backup and save_backup (SpecBackup).          *)
(***************************************************************************)
Returned(d) == bw[d].pc \in {"returned", "collected"}
FallbackSet(device) ==
    {device.fallback_credentials[i] : i \in 1..Len(device.fallback_credentials)}
DistinctCredentials(device) == {device.credentials} \cup FallbackSet(device)
FallbackPosition(device, cred) ==
    CHOOSE i \in 1..Len(device.fallback_credentials) :
        device.fallback_credentials[i] = cred

(* the attempts of one device are the primary and then distinct fallbacks  *)
(* in the order of the fallback list, none skipped                         *)
AttemptsInOrder(a, device) ==
    /\ Len(a) >= 1 => a[1].cred = device.credentials
    /\ \A i, j \in 1..Len(a) : i < j => a[i].cred # a[j].cred
    /\ \A i \in 2..Len(a) :
          /\ a[i].cred \in FallbackSet(device)
          /\ \A c \in FallbackSet(device) \ {device.credentials} :
                FallbackPosition(device, c) < FallbackPosition(device, a[i].cred)
                   => \E k \in 1..(i - 1) : a[k].cred = c
AttemptsEnd(a, task, device) ==
    /\ \A i \in 1..(Len(a) - 1) : a[i].outcome = "auth"
    /\ Len(a) <= Cardinality(DistinctCredentials(device))
    /\ task.pc = "running" => Len(a) < Cardinality(DistinctCredentials(device))
    /\ task.pc \in {"check", "write", "insert", "returned", "collected"}
          => Len(a) >= 1
    /\ device.type = "core" => Len(a) <= 1
AttemptsResult(a, task, device) ==
    /\ task.result.success
          => /\ a[Len(a)].outcome = "ok"
             /\ task.result.used_fallback = (a[Len(a)].cred # device.credentials)
    /\ ~task.result.success
          => /\ a[Len(a)].outcome # "ok"
             /\ task.result.error = SessionError(a[Len(a)].outcome)
             /\ a[Len(a)].outcome = "auth"
                   => Len(a) = Cardinality(DistinctCredentials(device))

(* C28: backup_device tries the primary credential and then each distinct  *)
(* fallback once, in order; it moves to the next credential only after an  *)
(* authentication failure; the first success or other error ends the       *)
(* attempts, so there are at most as many attempts as distinct             *)
(* credentials and one for a core device; used_fallback is true exactly    *)
(* when a credential other than the primary succeeded, and a failure       *)
(* reports the error of the last attempt                                   *)
C28_CredentialFallback ==
    \A d \in DOMAIN bw :
        /\ AttemptsInOrder(bw[d].attempts, breq.devices[d])
        /\ AttemptsEnd(bw[d].attempts, bw[d], breq.devices[d])
        /\ Returned(d) => AttemptsResult(bw[d].attempts, bw[d], breq.devices[d])

(* C28 witness: a device whose primary credential failed authentication    *)
(* and whose second credential succeeded, reported with used_fallback      *)
C28_Witness ==
    \E d \in DOMAIN bw :
        /\ Returned(d)
        /\ Len(bw[d].attempts) = 2
        /\ bw[d].attempts[1].outcome = "auth"
        /\ bw[d].result.success
        /\ bw[d].result.used_fallback

(* C25: no two backup records of one site have the same configuration      *)
(* hash, also when parallel workers interleave their save_backup calls; a  *)
(* save whose hash exists for the site writes no file, inserts no record   *)
(* and returns is_duplicate with has_changes false and the existing id     *)
C25_NoDuplicateHashPerSite ==
    /\ \A i, j \in 1..Len(bdb) :
          i < j => ~(bdb[i].sito = bdb[j].sito
                        /\ bdb[i].hash_config = bdb[j].hash_config)
    /\ \A d \in DOMAIN bw :
          (Returned(d) /\ bw[d].result.is_duplicate)
             => /\ ~bw[d].result.has_changes
                /\ bw[d].filename = <<>>
                /\ bw[d].result.backup_id \in 1..Len(bdb)
                /\ bdb[bw[d].result.backup_id].hash_config
                      = hash_config(bw[d].config)
                /\ \A i \in 1..Len(bdb) : bdb[i].ip # breq.devices[d].ip

(* C26: every backup record's file exists and holds the configuration      *)
(* whose hash and size the record stores, also after two devices of one    *)
(* site are saved by parallel workers within the same second               *)
C26_RecordFilesIntact ==
    \A i \in 1..Len(bdb) :
        /\ bdb[i].filename \in DOMAIN bfiles
        /\ hash_config(bfiles[bdb[i].filename]) = bdb[i].hash_config
        /\ Len(bfiles[bdb[i].filename]) = bdb[i].config_size

(***************************************************************************)
(* Claims about the worker pool (SpecPool).                                *)
(***************************************************************************)
InProgress == {d \in DOMAIN bw : bw[d].pc \notin {"queued", "returned", "collected"}}
EntriesOf(list, ip) == {i \in 1..Len(list) : list[i].ip = ip}
InOneList(d) ==
    /\ Cardinality(EntriesOf(bresults, breq.devices[d].ip))
          = (IF bw[d].pc = "collected" /\ bw[d].result.success THEN 1 ELSE 0)
    /\ Cardinality(EntriesOf(bfailed, breq.devices[d].ip))
          = (IF bw[d].pc = "collected" /\ ~bw[d].result.success THEN 1 ELSE 0)
PoolState ==
    /\ Cardinality(InProgress) <= 4
    /\ \A d \in DOMAIN bw : InOneList(d)
    /\ bout # NoBackupResponse
          => /\ \A d \in DOMAIN bw : bw[d].pc = "collected"
             /\ bout.total = Len(breq.devices)
             /\ bout.successful + bout.failed_count = bout.total
             /\ bout.results = bresults
             /\ bout.failed = bfailed
FailureIsLocal ==
    \A d \in DOMAIN bw :
        (bw[d].pc = "running" /\ bw'[d].pc = "returned" /\ ~bw'[d].result.success)
           => /\ \A e \in DOMAIN bw : e # d => bw'[e] = bw[e]
              /\ bresults' = bresults
              /\ bfailed' = bfailed

(* C24: at every moment at most 4 device backups are in progress; every    *)
(* submitted device ends in exactly one of the results and failed lists,   *)
(* so successful + failed_count = total; a device's failure becomes its    *)
(* failed entry and changes no other device's task                         *)
C24_BoundedPool == []PoolState /\ [][FailureIsLocal]_vars

(* C24 witness: the response for more devices than workers, some saved     *)
(* and some failed                                                         *)
C24_Witness ==
    /\ bout.total > 4
    /\ bout.successful >= 1
    /\ bout.failed_count >= 1

(***************************************************************************)
(* process_stack: the loop over the request's switches.  BeginUnit is the  *)
(* head of one iteration up to the brief listing, IfaceStep one iteration  *)
(* of the inner loop, EndUnit the exit of the with block and the           *)
(* descriptor, Finish the summary after the loop.  The device's answers    *)
(* are chosen when the code asks for them.                                 *)
(***************************************************************************)
Init ==
    /\ pname = NoneName
    /\ InitNameVars
    /\ InitStackVars
    /\ InitExtractVars
    /\ cblock = <<>>
    /\ InitConfigVars
    /\ InitRenderVars
    /\ InitImportVars
    /\ InitConnectVars
    /\ InitBackupVars

(* the descriptor appended after the with block *)
UnitDescriptor(sw, interface_count, vlans, method) ==
    [stack_unit |-> sw.unit, switch_ip |-> sw.host, port_count |-> sw.port_count,
     interface_count |-> interface_count, vlans |-> vlans,
     connection_method |-> method, error |-> "None"]

(* the descriptor appended by the except branch; error is str(e), here the *)
(* step that raised                                                        *)
FailedDescriptor(sw, error) ==
    [stack_unit |-> sw.unit, switch_ip |-> sw.host, port_count |-> sw.port_count,
     interface_count |-> 0, vlans |-> {}, connection_method |-> "None",
     error |-> error]

(* if parsed['port'] > port_count: continue *)
IsUplinkPortInclusive(parsed, port_count) == parsed.port >= port_count
IsUplinkPort(parsed, port_count) == parsed.port > port_count

(* if port_count == 8 and iface['name'].lower().startswith('gigabitethernet') *)
IsEightPortUplinkAnyCount(name, port_count) ==
    StartsWith(Lower(name), Lower(GigabitEthernet))
IsEightPortUplink(name, port_count) ==
    port_count = 8 /\ StartsWith(Lower(name), Lower(GigabitEthernet))

(* the VLANs of a record that process_stack adds to unique_vlans:          *)
(* config['vlan'] when it is truthy                                        *)
CollectedVlans(config) ==
    IF config.vlan # NoneInt /\ config.vlan # 0 THEN {config.vlan} ELSE {}

(* with SSHManager(...) as ssh: connect, then get_interface_brief; when    *)
(* the brief command raises, __exit__ disconnects, and a failing           *)
(* disconnect replaces the exception                                       *)
BeginUnit ==
    /\ pc = "units"
    /\ Len(switches) < MaxUnits
    /\ \E unit \in UnitNumbers, port_count \in PortCounts,
          connect \in {"SSH", "Telnet", "fail"}, brief \in {"ok", "fail"},
          disconnect \in {"ok", "fail"} :
         LET sw == [host |-> Len(switches) + 1, unit |-> unit,
                    port_count |-> port_count]
         IN  /\ switches' = Append(switches, sw)
             /\ IF connect = "fail"
                THEN /\ brief = "ok" /\ disconnect = "ok"
                     /\ stack_switches' =
                            Append(stack_switches, FailedDescriptor(sw, "connect"))
                     /\ UNCHANGED <<pc, cur>>
                ELSE IF brief = "fail"
                THEN /\ stack_switches' =
                            Append(stack_switches,
                                   FailedDescriptor(sw,
                                       IF disconnect = "fail" THEN "disconnect"
                                       ELSE "brief"))
                     /\ UNCHANGED <<pc, cur>>
                ELSE /\ disconnect = "ok"
                     /\ pc' = "iface"
                     /\ cur' = [sw |-> sw, method |-> connect,
                                switch_interfaces |-> <<>>]
                     /\ UNCHANGED stack_switches
    /\ last_iface' = NoLast
    /\ UNCHANGED <<all_interfaces, unique_vlans, stack_summary, listed,
                   nameVars, extractVars,
                   configVars, renderVars, importVars, connectVars, backupVars>>

(* the body of "for iface in interfaces_list" for the next entry of the    *)
(* listing; a skipped entry is not fetched, and the inner try swallows a   *)
(* failing fetch, parse or translation                                     *)
IfaceStep ==
    /\ pc = "iface"
    /\ listed < MaxIfaces
    /\ listed' = listed + 1
    /\ \E name \in StackNames, cfg \in CfgOutcomes :
         LET parsed == parse_interface_name(name)
             skipped == \/ ~parsed.recognized
                        \/ IsUplinkPort(parsed, cur.sw.port_count)
                        \/ IsEightPortUplink(name, cur.sw.port_count)
             translated ==
                 translate_full_config(
                     parse_interface_config(ConfigOutput(name, cfg)), cur.sw.unit)
             kept == ~skipped /\ cfg # "fail" /\ ~translated.raised
         IN  /\ last_iface' = [name |-> name, cfg |-> cfg,
                               before |-> Len(all_interfaces)]
             /\ cur' = [cur EXCEPT
                          !.switch_interfaces =
                              IF kept THEN Append(@, translated.config) ELSE @]
             /\ all_interfaces' =
                    IF kept THEN Append(all_interfaces, translated.config)
                    ELSE all_interfaces
             /\ unique_vlans' =
                    IF kept THEN unique_vlans \cup CollectedVlans(translated.config)
                    ELSE unique_vlans
    /\ UNCHANGED <<pc, switches, stack_switches, stack_summary,
                   nameVars, extractVars,
                   configVars, renderVars, importVars, connectVars, backupVars>>

(* the listing is exhausted: __exit__ disconnects; when that raises, the   *)
(* except branch records the unit as failed                                *)
EndUnit ==
    /\ pc = "iface"
    /\ \E disconnect \in {"ok", "fail"} :
         stack_switches' =
            Append(stack_switches,
                   IF disconnect = "ok"
                   THEN UnitDescriptor(cur.sw, Len(cur.switch_interfaces),
                                       unique_vlans, cur.method)
                   ELSE FailedDescriptor(cur.sw, "disconnect"))
    /\ pc' = "units"
    /\ cur' = NoCur
    /\ last_iface' = NoLast
    /\ UNCHANGED <<switches, all_interfaces, unique_vlans, stack_summary,
                   listed, nameVars, extractVars,
                   configVars, renderVars, importVars, connectVars, backupVars>>

(* stack_summary, after the last switch of a non-empty list *)
Finish ==
    /\ pc = "units"
    /\ Len(switches) >= 1
    /\ stack_summary' = [switch_count |-> Len(switches),
                         total_interfaces |-> Len(all_interfaces),
                         vlans |-> unique_vlans,
                         switches |-> stack_switches]
    /\ pc' = "done"
    /\ UNCHANGED <<switches, cur, all_interfaces, stack_switches, unique_vlans,
                   last_iface, listed, nameVars, extractVars,
                   configVars, renderVars, importVars, connectVars, backupVars>>

(***************************************************************************)
(* extract_config: the single-switch path, as one step.  The request names *)
(* the unit and the switch type; the device's behaviour is its connect     *)
(* outcome, its brief listing with the answer to each configuration fetch, *)
(* and its disconnect outcome.                                             *)
(***************************************************************************)
BriefEntries == [name : StackNames, cfg : CfgOutcomes]
BriefListings == UNION {[1..n -> BriefEntries] : n \in 0..MaxIfaces}

(* the loop "for iface in interfaces_list" of extract_config: an entry is
   appended when its name parses, its port is not an uplink, its
   configuration is fetched and its translation does not raise *)
ExtractTranslated(iface, unit_number) ==
    translate_full_config(
        parse_interface_config(ConfigOutput(iface.name, iface.cfg)),
        unit_number)

ExtractKeeps(iface, max_port, unit_number) ==
    LET parsed == parse_interface_name(iface.name)
    IN  /\ parsed.recognized
        /\ ~IsUplinkPort(parsed, max_port)
        /\ iface.cfg # "fail"
        /\ ~ExtractTranslated(iface, unit_number).raised

ExtractLoop(listing, max_port, unit_number) ==
    LET kept == SelectSeq(listing,
                          LAMBDA iface : ExtractKeeps(iface, max_port, unit_number))
    IN  [i \in 1..Len(kept) |-> ExtractTranslated(kept[i], unit_number).config]

ExtractConfig ==
    /\ pc = "units"
    /\ Len(switches) = 0
    /\ \E unit_number \in UnitNumbers, switch_type \in PortCounts,
          connect \in {"SSH", "Telnet", "fail"}, listing \in BriefListings,
          brief \in {"ok", "fail"}, disconnect \in {"ok", "fail"} :
         /\ (connect = "fail" \/ brief = "fail") => listing = <<>>
         /\ connect = "fail" => (brief = "ok" /\ disconnect = "ok")
         /\ extract_in' = [unit_number |-> unit_number, switch_type |-> switch_type,
                           connect |-> connect,
                           brief |-> IF brief = "fail" THEN <<"fail">> ELSE listing,
                           disconnect |-> disconnect]
         /\ extract_out' =
              IF connect = "fail" \/ brief = "fail" \/ disconnect = "fail"
              THEN [NoExtractOut EXCEPT !.status = 500]
              ELSE LET interfaces_config ==
                           ExtractLoop(listing, switch_type, unit_number)
                   IN  [status |-> 200, interfaces |-> interfaces_config,
                        count |-> Len(interfaces_config),
                        connection_method |-> connect]
    /\ pc' = "extracted"
    /\ UNCHANGED <<switches, cur, all_interfaces, stack_switches, unique_vlans,
                   stack_summary, last_iface, listed, nameVars,
                   configVars, renderVars, importVars, connectVars, backupVars>>

Next == BeginUnit \/ IfaceStep \/ EndUnit \/ Finish \/ ExtractConfig

Spec == Init /\ [][Next]_vars

(***************************************************************************)
(* Claims about process_stack and extract_config (Spec).                   *)
(***************************************************************************)
RECURSIVE SumCounts(_, _)
SumCounts(descriptors, i) ==
    IF i > Len(descriptors) THEN 0
    ELSE descriptors[i].interface_count + SumCounts(descriptors, i + 1)

(* C1: whatever units fail (connect, brief fetch or disconnect), the model *)
(* has one descriptor per supplied unit, in order; a descriptor with error *)
(* set has interface_count 0, and the failed units contribute nothing to   *)
(* the combined list: total_interfaces is the sum of the interface_count.  *)
C1_UnitFailuresIndependent ==
    pc = "done" =>
        /\ Len(stack_summary.switches) = Len(switches)
        /\ stack_summary.switch_count = Len(switches)
        /\ \A i \in 1..Len(switches) :
               /\ stack_summary.switches[i].stack_unit = switches[i].unit
               /\ stack_summary.switches[i].switch_ip = switches[i].host
               /\ stack_summary.switches[i].error # "None" =>
                      stack_summary.switches[i].interface_count = 0
        /\ stack_summary.total_interfaces = SumCounts(stack_summary.switches, 1)

(* C2: with pairwise distinct unit numbers, records that come from         *)
(* distinct source names (a unit lists a source name once) never share a   *)
(* translated name.                                                        *)
C2_TranslatedNamesUnique ==
    ( /\ pc = "done"
      /\ \A i, j \in 1..Len(switches) :
             i # j => switches[i].unit # switches[j].unit )
    => \A i, j \in 1..Len(all_interfaces) :
           ( /\ i # j
             /\ all_interfaces[i].original_name # all_interfaces[j].original_name )
           => all_interfaces[i].name # all_interfaces[j].name

(* the inner loop has just handled last_iface *)
Handled == pc = "iface" /\ last_iface.name # NoneName
(* ... and appended its record to the combined list *)
Appended ==
    /\ Len(all_interfaces) = last_iface.before + 1
    /\ all_interfaces[Len(all_interfaces)].original_name = last_iface.name
    /\ cur.switch_interfaces # <<>>
    /\ cur.switch_interfaces[Len(cur.switch_interfaces)]
         = all_interfaces[Len(all_interfaces)]
LastPort == parse_interface_name(last_iface.name).port
LastPrefix == parse_interface_name(last_iface.name).prefix
(* the device answered the fetch with a block that names the interface *)
Fetched(cfg) == cfg \in {"access", "trunk"}

(* the entries of an extract_config listing that have property P(entry) *)
ExtractedNames == {extract_out.interfaces[i].original_name :
                      i \in 1..Len(extract_out.interfaces)}

(* C3, as stated: an interface with port > C is excluded and every         *)
(* interface with port 1..C is included, in process_stack and in           *)
(* extract_config.                                                         *)
C3_UplinkFilterAsStated ==
    /\ Handled =>
          /\ LastPort > cur.sw.port_count => ~Appended
          /\ LastPort \in 1..cur.sw.port_count => Appended
    /\ (pc = "extracted" /\ extract_out.status = 200) =>
          \A i \in 1..Len(extract_in.brief) :
              LET port == parse_interface_name(extract_in.brief[i].name).port IN
              /\ port > extract_in.switch_type =>
                     extract_in.brief[i].name \notin ExtractedNames
              /\ port \in 1..extract_in.switch_type =>
                     extract_in.brief[i].name \in ExtractedNames

(* C3, amended: an interface with port > C is excluded; an interface with  *)
(* port <= C is included exactly when its configuration fetch returns a    *)
(* block that names it and, in process_stack, it is not a GigabitEthernet  *)
(* interface of an 8-port unit; an included interface of unit u is named   *)
(* "GE u/slot/port".  extract_config keeps, in order, exactly the entries  *)
(* with port <= C whose fetch returns such a block.                        *)
C3_UplinkFilter ==
    /\ Handled =>
          /\ Appended <=>
                /\ LastPort <= cur.sw.port_count
                /\ ~(cur.sw.port_count = 8 /\ LastPrefix = GigabitEthernet)
                /\ Fetched(last_iface.cfg)
          /\ ~Appended => Len(all_interfaces) = last_iface.before
          /\ Appended =>
                all_interfaces[Len(all_interfaces)].name =
                    <<"G", "E", " ">> \o Dec(cur.sw.unit) \o <<"/">>
                      \o Dec(parse_interface_name(last_iface.name).slot)
                      \o <<"/">> \o Dec(LastPort)
    /\ (pc = "extracted" /\ extract_out.status = 200) =>
          LET passing == {i \in 1..Len(extract_in.brief) :
                            /\ parse_interface_name(extract_in.brief[i].name).port
                                  <= extract_in.switch_type
                            /\ Fetched(extract_in.brief[i].cfg)}
          IN  /\ Len(extract_out.interfaces) = Cardinality(passing)
              /\ extract_out.count = Cardinality(passing)
              /\ \A i \in passing :
                     extract_out.interfaces[Cardinality({j \in passing : j <= i})]
                        .original_name = extract_in.brief[i].name

C3_Witness ==
    /\ Handled
    /\ Len(switches) = 2
    /\ switches[1].port_count = 24
    /\ stack_switches[1].error = "None"
    /\ cur.sw.port_count = 48
    /\ last_iface.name = Name3(Ethernet, 0, 0, 30)
    /\ Appended
    /\ Len(all_interfaces) = 1

(* C4: a unit of capacity 8 contributes no interface whose prefix is       *)
(* GigabitEthernet, whatever its port; for a unit of another capacity the  *)
(* rule excludes nothing: a GigabitEthernet interface within the capacity  *)
(* whose fetch succeeds is included.                                       *)
C4_EightPortRule ==
    /\ (pc = "iface" /\ cur.sw.port_count = 8) =>
          \A i \in 1..Len(cur.switch_interfaces) :
              parse_interface_name(cur.switch_interfaces[i].original_name).prefix
                 # GigabitEthernet
    /\ (Handled /\ cur.sw.port_count = 8 /\ LastPrefix = GigabitEthernet) =>
          Len(all_interfaces) = last_iface.before
    /\ ( /\ Handled
         /\ cur.sw.port_count # 8
         /\ LastPort <= cur.sw.port_count
         /\ Fetched(last_iface.cfg) ) => Appended

C4_Witness ==
    /\ Handled
    /\ cur.sw.port_count = 8
    /\ last_iface.name = Name3(GigabitEthernet, 0, 0, 8)
    /\ ~Appended
    /\ cur.switch_interfaces # <<>>

(* the access VLAN and the trunk VLANs of a record *)
RecordVlans(r) ==
    (IF r.vlan # NoneInt THEN {r.vlan} ELSE {})
       \cup {r.trunk_vlans[k] : k \in 1..Len(r.trunk_vlans)}

(* C5: the model's VLAN set is the union of the access and trunk VLANs of  *)
(* the retained interfaces; the VLAN set of a unit holds the VLANs of that *)
(* unit's retained interfaces.                                             *)
C5_VlanUnion ==
    /\ pc = "done" =>
          stack_summary.vlans =
              UNION {RecordVlans(all_interfaces[i]) : i \in 1..Len(all_interfaces)}
    /\ pc = "iface" =>
          \A i \in 1..Len(cur.switch_interfaces) :
              RecordVlans(cur.switch_interfaces[i]) \subseteq unique_vlans


(* the units recorded without an error, and the access VLANs of the        *)
(* records collected so far                                                *)
Succeeded == {i \in 1..Len(stack_switches) : stack_switches[i].error = "None"}
AccessVlansSoFar ==
    UNION {IF all_interfaces[i].vlan # NoneInt THEN {all_interfaces[i].vlan}
           ELSE {} : i \in 1..Len(all_interfaces)}

(* C29: the VLAN list on the descriptor of a successfully processed unit   *)
(* is the union of the access VLANs collected from the units processed up  *)
(* to and including it; the lists of the successful units grow along the   *)
(* unit order, the list of the last successful unit is the model's VLAN    *)
(* list, and a failed unit records an empty list.                          *)
C29_CumulativeUnitVlans ==
    /\ (pc = "units" /\ stack_switches # <<>> /\ last_iface = NoLast
        /\ Len(stack_switches) \in Succeeded) =>
           stack_switches[Len(stack_switches)].vlans = AccessVlansSoFar
    /\ \A i, j \in Succeeded :
           i < j => stack_switches[i].vlans \subseteq stack_switches[j].vlans
    /\ \A i \in 1..Len(stack_switches) :
           i \notin Succeeded => stack_switches[i].vlans = {}
    /\ (pc = "done" /\ Succeeded # {}) =>
           stack_switches[Maximum(Succeeded)].vlans = stack_summary.vlans

====
